---- MODULE Spec2Model ----
(***************************************************************************)
(* View state machines of the flint dashboard: VMDetailView                *)
(* (web/components/vm-detail-view.tsx) and StorageView                     *)
(* (web/components/storage-view.tsx).                                      *)
(*                                                                         *)
(* A state holds the useState cells of the mounted view, the requests that *)
(* are awaiting a response (inflight), the toast the last step raised and  *)
(* `event`: the event the last step handled (a                             *)
(* user event with the answer given to window.confirm, or the response to  *)
(* one request).  A step is one run of JavaScript to completion: an event  *)
(* handler up to its first await, or the continuation of an async handler  *)
(* from the response it awaited up to the next await or its end.           *)
(* Responses arrive in any order.  Every control is guarded by the         *)
(* condition under which the render shows and enables it.                  *)
(***************************************************************************)
EXTENDS Integers, Sequences, FiniteSets, Bags, TLC

VARIABLES
  view,                 \* which component is mounted: "vm" | "storage"
  mounted,              \* the mount effect has run
  route,                \* "here", or the path router.push navigated to
  isLoading, error,     \* both views
  toast,    \* last toast, last console message
  inflight,             \* bag of the requests awaiting their response
  event,                \* the event handled by the last step
  \* VMDetailView (vm-detail-view.tsx:91-108)
  vmData, snapshots, isPerformingAction,
  isCreateSnapshotOpen, snapshotName, snapshotDescription, isCreatingSnapshot,
  isAddDiskOpen, diskVolumePath, diskTargetDev, isAttachingDisk,
  isAddNetworkOpen, networkName, networkModel, isAttachingNetwork,
  \* StorageView (storage-view.tsx:68-78)
  storagePools, volumes, selectedPool,
  isCreateVolumeDialogOpen, newVolumeName, newVolumeSize, isCreatingVolume,
  \* the backend's volumes, per storage pool, in order of creation
  srvVolumes,
  \* ImagesView (storage-view.tsx:620-631); isLoading and error are its own
  images, isAddDialogOpen, isUploading, importPath, downloadUrl,
  isImporting, isDownloading,
  \* I18nProvider (i18n-provider.tsx:21-23), the 'locale' item of localStorage,
  \* the imported defaultLocale, and the effects the last commit left to run
  locale, translations, isInitialized, localStorage, defaultLocale, effects,
  \* history: the 'locale' item as it was when I18nProvider last mounted
  localeAtMount,
  \* history: the snapshot GET most recently issued by handleCreateSnapshot or
  \* handleDeleteSnapshot after its POST or DELETE succeeded, and its answer
  lastRefresh

envVars  == <<view, mounted, route, isLoading, error, toast, inflight, event>>
snapVars == <<isCreateSnapshotOpen, snapshotName, snapshotDescription, isCreatingSnapshot>>
diskVars == <<isAddDiskOpen, diskVolumePath, diskTargetDev, isAttachingDisk>>
netVars  == <<isAddNetworkOpen, networkName, networkModel, isAttachingNetwork>>
vmVars   == <<vmData, snapshots, isPerformingAction, snapVars, diskVars, netVars>>
formVars == <<isCreateVolumeDialogOpen, newVolumeName, newVolumeSize, isCreatingVolume>>
storageVars == <<storagePools, volumes, selectedPool, formVars, srvVolumes>>
imageVars == <<images, isAddDialogOpen, isUploading, importPath, downloadUrl,
               isImporting, isDownloading>>
i18nVars  == <<locale, translations, isInitialized, localStorage, defaultLocale, effects,
               localeAtMount>>
otherVars == <<imageVars, i18nVars>>
vars     == <<envVars, vmVars, storageVars, otherVars, lastRefresh>>

-----------------------------------------------------------------------------
(* Bounds *)

\* Most requests awaiting a response at once.
MaxInFlight == 2
\* Rows of the volumes table beyond which no further volume is created.
MaxVolumes == 2

-----------------------------------------------------------------------------
(* Values *)

NoError == "<null>"
NoVM    == [uuid |-> "", state |-> "", disks |-> <<>>, nics |-> <<>>]
NoToast == [title |-> "", description |-> <<>>, variant |-> ""]

\* JSON values a snapshots GET can deliver into `snapshots` (useState<any[]>).
JArray(items) == [kind |-> "array", items |-> items, error |-> ""]
JObject(s)    == [kind |-> "object", items |-> <<>>, error |-> s]

\* The state strings a VM can come back with; the view compares against
\* "Running" (line 538) and against "shutoff" (lines 980, 1022).
VMStates == {"Running", "shutoff", "paused"}
VMBodies == [uuid : {"u1"}, state : VMStates, disks : {<<>>}, nics : {<<>>}]

NoReq == [h |-> "", op |-> "", arg |-> <<>>, size |-> 0]
NoRes == [status |-> "", json |-> FALSE, error |-> "", vm |-> NoVM, list |-> JArray(<<>>)]
Req(h, op, arg) == [h |-> h, op |-> op, arg |-> arg, size |-> 0]

NoEvent == [type |-> "init", name |-> "", confirm |-> "none", req |-> NoReq, res |-> NoRes]
UserEvent(name, confirm) == [NoEvent EXCEPT !.type = "user", !.name = name, !.confirm = confirm]
ResponseEvent(req, res)  == [NoEvent EXCEPT !.type = "response", !.req = req, !.res = res]

-----------------------------------------------------------------------------
(* Responses.  fetch() rejects on a network error and resolves on any HTTP  *)
(* status; a non-2xx body is JSON {error: s}, JSON without an error field   *)
(* (error = ""), or not JSON.  vmAPI.getById resolves to a VM or rejects    *)
(* with an Error.                                                          *)

BackendErrors == {"domain is locked"}
HttpStatus    == "500"

NetErr           == [NoRes EXCEPT !.status = "net"]
HttpErr(json, s) == [NoRes EXCEPT !.status = "http", !.json = json, !.error = s]
Ok2xx            == [NoRes EXCEPT !.status = "ok", !.json = TRUE]
OkVM(vm)         == [Ok2xx EXCEPT !.vm = vm]
OkList(l)        == [Ok2xx EXCEPT !.list = JArray(l)]
ApiThrow(m)      == [NoRes EXCEPT !.status = "throw", !.error = m]

HttpErrs    == {HttpErr(TRUE, s) : s \in BackendErrors \cup {""}} \cup {HttpErr(FALSE, "")}
FetchErrs   == {NetErr} \cup HttpErrs
MutationResponses == {Ok2xx} \cup FetchErrs
GetByIdResponses  == {OkVM(vm) : vm \in VMBodies} \cup {ApiThrow("Failed to fetch VM")}
\* VMs with and without an attached disk and interface, for the attach dialogs.
VMBodiesWithDevices == [uuid : {"u1"}, state : {"Running"},
                        disks : {<<>>, <<"vdb">>}, nics : {<<>>, <<"default">>}]
AttachGetByIdResponses ==
  {OkVM(vm) : vm \in VMBodiesWithDevices} \cup {ApiThrow("Failed to fetch VM")}

\* err.message of the error a fetch() rejects with.
NetMessage == <<"Failed to fetch">>
\* err.message of the SyntaxError response.json() rejects with.
JsonMessage == <<"Unexpected token < in JSON">>

\* `errorData.error || fallback` after `await response.json().catch(() => ({}))`
ErrorOr(r, fallback) == IF r.json /\ r.error # "" THEN <<r.error>> ELSE fallback

\* `const updatedVM = await vmAPI.getById(vmData.uuid); setVmData(updatedVM)`:
\* the value of vmData after the response r; a rejection skips the setter.
\* A refresh that cleared vmData when getById rejects.
RefreshedVmData_clearsOnFailure(r) == IF r.status = "ok" THEN r.vm ELSE NoVM

RefreshedVmData(r) == IF r.status = "ok" THEN r.vm ELSE vmData

Toast(title, description, variant) ==
  [title |-> title, description |-> description, variant |-> variant]

\* The pending requests after one more is sent, after the response to req has
\* been handled, and after the handler awaiting req went on to await next.
Send(req)         == inflight (+) SetToBag({req})
Done(req)         == inflight (-) SetToBag({req})
Follow(req, next) == Done(req) (+) SetToBag({next})

-----------------------------------------------------------------------------
(* VMDetailView *)

InitVM ==
  /\ vmData = NoVM /\ snapshots = JArray(<<>>) /\ isPerformingAction = FALSE
  /\ isCreateSnapshotOpen = FALSE /\ snapshotName = "" /\ snapshotDescription = ""
  /\ isCreatingSnapshot = FALSE
  /\ isAddDiskOpen = FALSE /\ diskVolumePath = "" /\ diskTargetDev = ""
  /\ isAttachingDisk = FALSE
  /\ isAddNetworkOpen = FALSE /\ networkName = "" /\ networkModel = "virtio"
  /\ isAttachingNetwork = FALSE

\* useState initial values of StorageView (lines 68-78).
NoPool == [name |-> "", state |-> "", capacity_b |-> 0, allocation_b |-> 0]
DefaultVolumeSize == 10
InitStorageView ==
  /\ storagePools = <<>> /\ volumes = <<>> /\ selectedPool = NoPool
  /\ isCreateVolumeDialogOpen = FALSE /\ newVolumeName = ""
  /\ newVolumeSize = DefaultVolumeSize /\ isCreatingVolume = FALSE

\* ImagesView after construction (lines 620-631).
InitImagesView ==
  /\ images = <<>> /\ isAddDialogOpen = FALSE /\ isUploading = FALSE
  /\ importPath = "" /\ downloadUrl = ""
  /\ isImporting = FALSE /\ isDownloading = FALSE

\* I18nProvider not rendered: the views above are modelled without it.
NoI18n ==
  /\ locale = "en" /\ translations = "en" /\ isInitialized = FALSE
  /\ localStorage = "" /\ defaultLocale = "en" /\ effects = <<>>
  /\ localeAtMount = ""

InitEnv ==
  /\ mounted = FALSE /\ route = "here"
  /\ isLoading = TRUE /\ error = NoError
  /\ toast = NoToast /\ inflight = EmptyBag /\ event = NoEvent

\* No refresh GET has been issued yet.
NoRefresh == [req |-> NoReq, res |-> NoRes, answered |-> FALSE]

Init ==
  /\ view = "vm" /\ InitEnv /\ InitVM /\ InitStorageView
  /\ srvVolumes = <<>>
  /\ InitImagesView /\ NoI18n
  /\ lastRefresh = NoRefresh

\* The main render of VMDetailView is on screen (lines 380, 423, 515).
VMShown == view = "vm" /\ route = "here" /\ mounted /\ ~isLoading
           /\ error = NoError /\ vmData # NoVM
\* The three dialogs are modal: while one is open the page behind it is inert.
NoDialog == ~isCreateSnapshotOpen /\ ~isAddDiskOpen /\ ~isAddNetworkOpen
CanSend  == BagCardinality(inflight) < MaxInFlight

\* useEffect on [vmData?.uuid] (lines 134-141): the request it issues when a
\* step changes vmData from old to new.
SnapshotsEffect(old, new) ==
  IF new.uuid # old.uuid /\ new.uuid # ""
    THEN SetToBag({Req("snapshotsEffect", "getSnapshots", <<>>)}) ELSE EmptyBag

\* useEffect(fetchVMData, [searchParams]) on mount (lines 110-132).
fetchVMData ==
  /\ view = "vm" /\ ~mounted
  /\ mounted' = TRUE
  /\ \E hasId \in BOOLEAN :
       IF ~hasId
         THEN /\ error' = "No VM ID provided" /\ isLoading' = FALSE
              /\ UNCHANGED inflight
         ELSE /\ isLoading' = TRUE
              /\ inflight' = Send(Req("fetchVMData", "getById", <<>>))
              /\ UNCHANGED error
  /\ event' = [NoEvent EXCEPT !.type = "mount"]
  /\ UNCHANGED <<view, route, vmVars>> /\ toast' = NoToast
  /\ UNCHANGED <<storageVars, otherVars>>

\* fetchVMData after `await vmAPI.getById(vmId)` (lines 122-128).
fetchVMData_response(req, r) ==
  /\ req = Req("fetchVMData", "getById", <<>>)
  /\ r \in GetByIdResponses \cup AttachGetByIdResponses
  /\ route = "here"
  /\ event' = ResponseEvent(req, r)
  /\ isLoading' = FALSE
  /\ IF r.status = "ok"
       THEN /\ vmData' = r.vm
            /\ inflight' = Done(req) (+) SnapshotsEffect(vmData, r.vm)
            /\ UNCHANGED error
       ELSE /\ error' = r.error
            /\ inflight' = Done(req)
            /\ UNCHANGED vmData
  /\ UNCHANGED <<view, mounted, route>> /\ toast' = NoToast
  /\ UNCHANGED <<snapshots, isPerformingAction, snapVars, diskVars, netVars>>
  /\ UNCHANGED <<storageVars, otherVars>>

\* The lists a snapshots GET answers with.
Snapshot(name) == [name |-> name, description |-> ""]
SnapshotLists  == {<<>>, <<Snapshot("snap1")>>}
SnapshotResponses == {OkList(l) : l \in SnapshotLists} \cup FetchErrs

\* The promise chain of the snapshots effect (lines 136-139): res.json() of any
\* status is handed to setSnapshots; a rejection is logged.
snapshotsEffect_response(req, r) ==
  /\ req = Req("snapshotsEffect", "getSnapshots", <<>>)
  /\ r \in SnapshotResponses
  /\ route = "here"
  /\ event' = ResponseEvent(req, r)
  /\ inflight' = Done(req)
  /\ IF r.status = "net" \/ ~r.json
       THEN UNCHANGED snapshots
       ELSE /\ snapshots' = IF r.status = "ok" THEN r.list ELSE JObject(r.error)
  /\ UNCHANGED <<view, mounted, route, isLoading, error>> /\ toast' = NoToast
  /\ UNCHANGED <<vmData, isPerformingAction, snapVars, diskVars, netVars>>
  /\ UNCHANGED <<storageVars, otherVars>>

-----------------------------------------------------------------------------
(* performVMAction (lines 143-177) and the header buttons (lines 537-584) *)

\* getStatusBadge (lines 444-470): the badge rendered for vmData.state (line 531).
getStatusBadge(status) ==
  CASE status = "running" -> "Running"
    [] status = "shutoff" -> "Stopped"
    [] status = "paused"  -> "Paused"
    [] OTHER              -> "outline"

\* Stop and Reboot are rendered when vmData.state === "Running", Start
\* otherwise; each is disabled while isPerformingAction.
ActionButtonShown(action) ==
  IF action \in {"stop", "reboot"} THEN vmData.state = "Running"
                                   ELSE vmData.state # "Running"
ActionButtonEnabled(action) == ActionButtonShown(action) /\ ~isPerformingAction

performVMAction(action) ==
  /\ VMShown /\ NoDialog /\ CanSend
  /\ ActionButtonEnabled(action)
  /\ vmData.uuid # ""
  /\ isPerformingAction' = TRUE
  /\ inflight' = Send(Req("performVMAction", "postAction", <<action>>))
  /\ event' = UserEvent(action, "none")
  /\ UNCHANGED <<view, mounted, route, isLoading, error>> /\ toast' = NoToast
  /\ UNCHANGED <<vmData, snapshots, snapVars, diskVars, netVars>>
  /\ UNCHANGED <<storageVars, otherVars>>

ActionFailedToast(action, message) ==
  Toast("Error", <<"Failed to ", action, " VM: ">> \o message, "destructive")

\* After `await fetch(.../action)` (lines 154-160, 167-176).
\* A catch that sent the failed action again.
AfterFailedAction_retries(req) == inflight

\* The pending requests after the catch and the finally of performVMAction
\* (lines 168-176): the handler ends, nothing is sent again.
AfterFailedAction(req) == Done(req)

performVMAction_posted(req, r) ==
  /\ req.h = "performVMAction" /\ req.op = "postAction"
  /\ r \in MutationResponses
  /\ route = "here"
  /\ event' = ResponseEvent(req, r)
  /\ LET action == req.arg[1] IN
     IF r.status = "ok"
       THEN /\ inflight' = Follow(req, Req("performVMAction", "getById", <<action>>))
            /\ toast' = NoToast /\ UNCHANGED isPerformingAction
       ELSE /\ inflight' = AfterFailedAction(req)
            /\ toast' = ActionFailedToast(action,
                 IF r.status = "net" THEN NetMessage
                 ELSE ErrorOr(r, <<"Failed to ", action, " VM (HTTP ", HttpStatus, ")">>))
            /\ isPerformingAction' = FALSE
  /\ UNCHANGED <<view, mounted, route, isLoading, error>>
  /\ UNCHANGED <<vmData, snapshots, snapVars, diskVars, netVars>>
  /\ UNCHANGED <<storageVars, otherVars>>

\* After `await vmAPI.getById(vmData.uuid)` (lines 160-176).
performVMAction_refreshed(req, r) ==
  /\ req.h = "performVMAction" /\ req.op = "getById"
  /\ r \in GetByIdResponses
  /\ route = "here"
  /\ vmData' = RefreshedVmData(r)
  /\ event' = ResponseEvent(req, r)
  /\ LET action == req.arg[1] IN
     IF r.status = "ok"
       THEN /\ inflight' = Done(req) (+) SnapshotsEffect(vmData, r.vm)
            /\ toast' = Toast("Success",
                 <<"VM ", action, " operation completed successfully">>, "")
       ELSE /\ inflight' = Done(req)
            /\ toast' = ActionFailedToast(action, <<r.error>>)
  /\ isPerformingAction' = FALSE
  /\ UNCHANGED <<view, mounted, route, isLoading, error>>
  /\ UNCHANGED <<snapshots, snapVars, diskVars, netVars>>
  /\ UNCHANGED <<storageVars, otherVars>>

-----------------------------------------------------------------------------
(* Delete VM button (lines 626-663) *)

deleteVM(confirmed) ==
  /\ VMShown /\ NoDialog /\ CanSend
  /\ event' = UserEvent("deleteVM", IF confirmed THEN "yes" ELSE "no")
  /\ inflight' = IF confirmed
                   THEN Send(Req("deleteVM", "deleteVM", <<>>))
                   ELSE inflight
  /\ UNCHANGED <<view, mounted, route, isLoading, error, vmVars>> /\ toast' = NoToast
  /\ UNCHANGED <<storageVars, otherVars>>

\* A handler that leaves the view whatever the answer was.
RouteAfterDelete_alwaysLeaves(r) == "/vms"

\* router.push('/vms') is reached only past the !response.ok throw (lines 638-649).
RouteAfterDelete(r) == IF r.status = "ok" THEN "/vms" ELSE route

deleteVM_response(req, r) ==
  /\ req = Req("deleteVM", "deleteVM", <<>>)
  /\ r \in MutationResponses
  /\ route = "here"
  /\ event' = ResponseEvent(req, r)
  /\ inflight' = Done(req)
  /\ IF r.status = "ok"
       THEN toast' = Toast("Success", <<"VM \"", "vm", "\" deleted successfully">>, "")
       ELSE /\ toast' = Toast("Error", <<"Failed to delete VM: ">> \o
                 (IF r.status = "net" THEN NetMessage
                  ELSE ErrorOr(r, <<"Failed to delete VM (HTTP ", HttpStatus, ")">>)),
                 "destructive")
  /\ route' = RouteAfterDelete(r)
  /\ UNCHANGED <<view, mounted, isLoading, error, vmVars>>
  /\ UNCHANGED <<storageVars, otherVars>>

-----------------------------------------------------------------------------
(* Create Snapshot: button (lines 977-984), dialog (lines 1056-1104),       *)
(* handleCreateSnapshot (lines 179-221)                                     *)

SnapshotNames        == {"", " ", "snap1"}
SnapshotDescriptions == {"", "before upgrade"}
\* String.prototype.trim on the names above.
Trim(s) == IF s = " " THEN "" ELSE s

\* The page button is disabled unless vmData.state === "shutoff" (line 980).
CreateSnapshotButtonEnabled == vmData.state = "shutoff"

openCreateSnapshot ==
  /\ VMShown /\ NoDialog
  /\ CreateSnapshotButtonEnabled
  /\ isCreateSnapshotOpen' = TRUE
  /\ event' = UserEvent("openCreateSnapshot", "none")
  /\ UNCHANGED <<view, mounted, route, isLoading, error, inflight>> /\ toast' = NoToast
  /\ UNCHANGED <<vmData, snapshots, isPerformingAction, diskVars, netVars>>
  /\ UNCHANGED <<snapshotName, snapshotDescription, isCreatingSnapshot>>
  /\ UNCHANGED <<storageVars, otherVars>>

\* Cancel (line 1086) or the dialog's own onOpenChange(false) (line 1056).
closeCreateSnapshot ==
  /\ VMShown /\ isCreateSnapshotOpen
  /\ isCreateSnapshotOpen' = FALSE
  /\ event' = UserEvent("closeCreateSnapshot", "none")
  /\ UNCHANGED <<view, mounted, route, isLoading, error, inflight>> /\ toast' = NoToast
  /\ UNCHANGED <<vmData, snapshots, isPerformingAction, diskVars, netVars>>
  /\ UNCHANGED <<snapshotName, snapshotDescription, isCreatingSnapshot>>
  /\ UNCHANGED <<storageVars, otherVars>>

\* onChange of the two inputs (lines 1071, 1080).
editSnapshotForm(name, description) ==
  /\ VMShown /\ isCreateSnapshotOpen
  /\ name \in SnapshotNames /\ description \in SnapshotDescriptions
  /\ <<name, description>> # <<snapshotName, snapshotDescription>>
  /\ snapshotName' = name /\ snapshotDescription' = description
  /\ event' = UserEvent("editSnapshotForm", "none")
  /\ UNCHANGED <<view, mounted, route, isLoading, error, inflight>> /\ toast' = NoToast
  /\ UNCHANGED <<vmData, snapshots, isPerformingAction, diskVars, netVars>>
  /\ UNCHANGED <<isCreateSnapshotOpen, isCreatingSnapshot>>
  /\ UNCHANGED <<storageVars, otherVars>>

\* The dialog's submit button (line 1091).
SubmitSnapshotEnabled == Trim(snapshotName) # "" /\ ~isCreatingSnapshot

handleCreateSnapshot ==
  /\ VMShown /\ isCreateSnapshotOpen /\ CanSend
  /\ SubmitSnapshotEnabled
  /\ ~(Trim(snapshotName) = "" \/ vmData = NoVM)
  /\ isCreatingSnapshot' = TRUE
  /\ inflight' = Send(Req("handleCreateSnapshot", "postSnapshot",
                                      <<snapshotName, snapshotDescription>>))
  /\ event' = UserEvent("createSnapshot", "none")
  /\ UNCHANGED <<view, mounted, route, isLoading, error>> /\ toast' = NoToast
  /\ UNCHANGED <<vmData, snapshots, isPerformingAction, diskVars, netVars>>
  /\ UNCHANGED <<isCreateSnapshotOpen, snapshotName, snapshotDescription>>
  /\ UNCHANGED <<storageVars, otherVars>>

CreateSnapshotFailedToast(message) ==
  Toast("Error", <<"Failed to create snapshot: ">> \o message, "destructive")

\* A catch block that ran the form reset of the success path as well.
CreateSnapshotCatch_resetsForm(message) ==
  /\ toast' = CreateSnapshotFailedToast(message)
  /\ snapshotName' = "" /\ snapshotDescription' = ""
  /\ isCreateSnapshotOpen' = FALSE
  /\ UNCHANGED snapshots

\* The catch block (lines 211-217): a log line and a destructive toast.
CreateSnapshotCatch(message) ==
  /\ toast' = CreateSnapshotFailedToast(message)
  /\ UNCHANGED <<snapshots, isCreateSnapshotOpen, snapshotName, snapshotDescription>>

\* After the POST (lines 193-198, 211-220).
handleCreateSnapshot_posted(req, r) ==
  /\ req.h = "handleCreateSnapshot" /\ req.op = "postSnapshot"
  /\ r \in MutationResponses
  /\ route = "here"
  /\ event' = ResponseEvent(req, r)
  /\ IF r.status = "ok"
       THEN /\ inflight' = Follow(req, [req EXCEPT !.op = "getSnapshots"])
            /\ toast' = NoToast
            /\ UNCHANGED <<isCreatingSnapshot, snapshots, isCreateSnapshotOpen,
                           snapshotName, snapshotDescription>>
       ELSE /\ inflight' = Done(req)
            /\ CreateSnapshotCatch(IF r.status = "net" THEN NetMessage
                                   ELSE <<"Failed to create snapshot">>)
            /\ isCreatingSnapshot' = FALSE
  /\ UNCHANGED <<view, mounted, route, isLoading, error>>
  /\ UNCHANGED <<vmData, isPerformingAction, diskVars, netVars>>
  /\ UNCHANGED <<storageVars, otherVars>>

\* After the refresh GET (lines 198-220).
handleCreateSnapshot_refreshed(req, r) ==
  /\ req.h = "handleCreateSnapshot" /\ req.op = "getSnapshots"
  /\ r \in SnapshotResponses
  /\ route = "here"
  /\ event' = ResponseEvent(req, r)
  /\ inflight' = Done(req)
  /\ IF r.status = "net" \/ ~r.json
       THEN CreateSnapshotCatch(IF r.status = "net" THEN NetMessage ELSE JsonMessage)
       ELSE /\ snapshots' = IF r.status = "ok" THEN r.list ELSE JObject(r.error)
            /\ snapshotName' = "" /\ snapshotDescription' = ""
            /\ isCreateSnapshotOpen' = FALSE
            /\ toast' = Toast("Success",
                 <<"Snapshot \"", req.arg[1], "\" created successfully">>, "")
  /\ isCreatingSnapshot' = FALSE
  /\ UNCHANGED <<view, mounted, route, isLoading, error>>
  /\ UNCHANGED <<vmData, isPerformingAction, diskVars, netVars>>
  /\ UNCHANGED <<storageVars, otherVars>>

-----------------------------------------------------------------------------
(* Snapshot rows (lines 1009-1039): handleDeleteSnapshot (lines 223-254),   *)
(* handleRevertSnapshot (lines 344-378)                                     *)

\* The names of the rows snapshots.map renders.
SnapshotRows ==
  IF snapshots.kind = "array"
    THEN {snapshots.items[k].name : k \in DOMAIN snapshots.items} ELSE {}

handleDeleteSnapshot(name, confirmed) ==
  /\ VMShown /\ NoDialog /\ CanSend
  /\ name \in SnapshotRows
  /\ event' = UserEvent("deleteSnapshot", IF confirmed THEN "yes" ELSE "no")
  /\ inflight' = IF vmData # NoVM /\ confirmed
                   THEN Send(Req("handleDeleteSnapshot", "deleteSnapshot", <<name>>))
                   ELSE inflight
  /\ UNCHANGED <<view, mounted, route, isLoading, error, vmVars>> /\ toast' = NoToast
  /\ UNCHANGED <<storageVars, otherVars>>

DeleteSnapshotFailedToast(message) ==
  Toast("Error", <<"Failed to delete snapshot: ">> \o message, "destructive")

handleDeleteSnapshot_deleted(req, r) ==
  /\ req.h = "handleDeleteSnapshot" /\ req.op = "deleteSnapshot"
  /\ r \in MutationResponses
  /\ route = "here"
  /\ event' = ResponseEvent(req, r)
  /\ IF r.status = "ok"
       THEN /\ inflight' = Follow(req, [req EXCEPT !.op = "getSnapshots"])
            /\ toast' = NoToast
       ELSE /\ inflight' = Done(req)
            /\ toast' = DeleteSnapshotFailedToast(
                 IF r.status = "net" THEN NetMessage
                 ELSE <<"Failed to delete snapshot">>)
  /\ UNCHANGED <<view, mounted, route, isLoading, error, vmVars>>
  /\ UNCHANGED <<storageVars, otherVars>>

handleDeleteSnapshot_refreshed(req, r) ==
  /\ req.h = "handleDeleteSnapshot" /\ req.op = "getSnapshots"
  /\ r \in SnapshotResponses
  /\ route = "here"
  /\ event' = ResponseEvent(req, r)
  /\ inflight' = Done(req)
  /\ IF r.status = "net" \/ ~r.json
       THEN /\ toast' = DeleteSnapshotFailedToast(
                 IF r.status = "net" THEN NetMessage ELSE JsonMessage)
            /\ UNCHANGED snapshots
       ELSE /\ snapshots' = IF r.status = "ok" THEN r.list ELSE JObject(r.error)
            /\ toast' = Toast("Success",
                 <<"Snapshot \"", req.arg[1], "\" deleted successfully">>, "")
  /\ UNCHANGED <<view, mounted, route, isLoading, error>>
  /\ UNCHANGED <<vmData, isPerformingAction, snapVars, diskVars, netVars>>
  /\ UNCHANGED <<storageVars, otherVars>>

\* The row's revert button is disabled unless vmData.state === "shutoff" (line 1022).
\* A revert button without its disabled condition.
RevertButtonEnabled_ungated == TRUE

RevertButtonEnabled == vmData.state = "shutoff"

handleRevertSnapshot(name, confirmed) ==
  /\ VMShown /\ NoDialog /\ CanSend
  /\ name \in SnapshotRows
  /\ RevertButtonEnabled
  /\ event' = UserEvent("revertSnapshot", IF confirmed THEN "yes" ELSE "no")
  /\ IF vmData # NoVM /\ confirmed
       THEN /\ isPerformingAction' = TRUE
            /\ inflight' = Send(Req("handleRevertSnapshot", "postRevert", <<name>>))
       ELSE UNCHANGED <<isPerformingAction, inflight>>
  /\ UNCHANGED <<view, mounted, route, isLoading, error>> /\ toast' = NoToast
  /\ UNCHANGED <<vmData, snapshots, snapVars, diskVars, netVars>>
  /\ UNCHANGED <<storageVars, otherVars>>

RevertFailedToast(message) ==
  Toast("Error", <<"Failed to revert snapshot: ">> \o message, "destructive")

\* After the POST (lines 355-361, 368-377); response.json() has no catch here.
handleRevertSnapshot_posted(req, r) ==
  /\ req.h = "handleRevertSnapshot" /\ req.op = "postRevert"
  /\ r \in MutationResponses
  /\ route = "here"
  /\ event' = ResponseEvent(req, r)
  /\ IF r.status = "ok"
       THEN /\ inflight' = Follow(req, [req EXCEPT !.op = "getById"])
            /\ toast' = NoToast /\ UNCHANGED isPerformingAction
       ELSE /\ inflight' = Done(req)
            /\ toast' = RevertFailedToast(
                 IF r.status = "net" THEN NetMessage
                 ELSE IF ~r.json THEN JsonMessage
                 ELSE ErrorOr(r, <<"Failed to revert snapshot">>))
            /\ isPerformingAction' = FALSE
  /\ UNCHANGED <<view, mounted, route, isLoading, error>>
  /\ UNCHANGED <<vmData, snapshots, snapVars, diskVars, netVars>>
  /\ UNCHANGED <<storageVars, otherVars>>

handleRevertSnapshot_refreshed(req, r) ==
  /\ req.h = "handleRevertSnapshot" /\ req.op = "getById"
  /\ r \in GetByIdResponses
  /\ route = "here"
  /\ vmData' = RefreshedVmData(r)
  /\ event' = ResponseEvent(req, r)
  /\ IF r.status = "ok"
       THEN /\ inflight' = Done(req) (+) SnapshotsEffect(vmData, r.vm)
            /\ toast' = Toast("Success",
                 <<"VM reverted to snapshot \"", req.arg[1], "\" successfully">>, "")
       ELSE /\ inflight' = Done(req)
            /\ toast' = RevertFailedToast(<<r.error>>)
  /\ isPerformingAction' = FALSE
  /\ UNCHANGED <<view, mounted, route, isLoading, error>>
  /\ UNCHANGED <<snapshots, snapVars, diskVars, netVars>>
  /\ UNCHANGED <<storageVars, otherVars>>

-----------------------------------------------------------------------------
(* Add Disk dialog (lines 768-825) and handleAttachDisk (lines 256-298) *)

VolumePaths   == {"", "/var/lib/libvirt/images/disk.qcow2"}
TargetDevs    == {"", "vdb"}

\* DialogTrigger / onOpenChange of the Add Disk dialog (line 768).
setIsAddDiskOpen(open) ==
  /\ VMShown
  /\ IF open THEN NoDialog ELSE isAddDiskOpen
  /\ isAddDiskOpen' = open
  /\ event' = UserEvent(IF open THEN "openAddDisk" ELSE "closeAddDisk", "none")
  /\ toast' = NoToast
  /\ UNCHANGED <<view, mounted, route, isLoading, error, inflight>>
  /\ UNCHANGED <<vmData, snapshots, isPerformingAction, snapVars, netVars>>
  /\ UNCHANGED <<diskVolumePath, diskTargetDev, isAttachingDisk>>
  /\ UNCHANGED <<storageVars, otherVars>>

\* onChange of the two inputs (lines 790, 802).
editDiskForm(path, dev) ==
  /\ VMShown /\ isAddDiskOpen
  /\ path \in VolumePaths /\ dev \in TargetDevs
  /\ <<path, dev>> # <<diskVolumePath, diskTargetDev>>
  /\ diskVolumePath' = path /\ diskTargetDev' = dev
  /\ event' = UserEvent("editDiskForm", "none")
  /\ toast' = NoToast
  /\ UNCHANGED <<view, mounted, route, isLoading, error, inflight>>
  /\ UNCHANGED <<vmData, snapshots, isPerformingAction, snapVars, netVars>>
  /\ UNCHANGED <<isAddDiskOpen, isAttachingDisk>>
  /\ UNCHANGED <<storageVars, otherVars>>

\* The dialog's submit button (line 812).
AttachDiskEnabled == ~isAttachingDisk /\ diskVolumePath # "" /\ diskTargetDev # ""

handleAttachDisk ==
  /\ VMShown /\ isAddDiskOpen /\ CanSend
  /\ AttachDiskEnabled
  /\ ~(vmData.uuid = "" \/ diskVolumePath = "" \/ diskTargetDev = "")
  /\ isAttachingDisk' = TRUE
  /\ inflight' = Send(Req("handleAttachDisk", "postAttachDisk",
                                      <<diskVolumePath, diskTargetDev>>))
  /\ event' = UserEvent("attachDisk", "none")
  /\ toast' = NoToast
  /\ UNCHANGED <<view, mounted, route, isLoading, error>>
  /\ UNCHANGED <<vmData, snapshots, isPerformingAction, snapVars, netVars>>
  /\ UNCHANGED <<isAddDiskOpen, diskVolumePath, diskTargetDev>>
  /\ UNCHANGED <<storageVars, otherVars>>

AttachDiskFailedToast(message) ==
  Toast("Error", <<"Failed to attach disk: ">> \o message, "destructive")

\* A catch block that ran the form reset of the success path as well.
AttachDiskCatch_resetsForm(message) ==
  /\ toast' = AttachDiskFailedToast(message)
  /\ isAddDiskOpen' = FALSE /\ diskVolumePath' = "" /\ diskTargetDev' = ""

\* The catch block (lines 288-295): a log line and a destructive toast.
AttachDiskCatch(message) ==
  /\ toast' = AttachDiskFailedToast(message)
  /\ UNCHANGED <<isAddDiskOpen, diskVolumePath, diskTargetDev>>

handleAttachDisk_posted(req, r) ==
  /\ req.h = "handleAttachDisk" /\ req.op = "postAttachDisk"
  /\ r \in MutationResponses
  /\ route = "here"
  /\ event' = ResponseEvent(req, r)
  /\ IF r.status = "ok"
       THEN /\ inflight' = Follow(req, [req EXCEPT !.op = "getById"])
            /\ toast' = NoToast /\ UNCHANGED isAttachingDisk
            /\ UNCHANGED <<isAddDiskOpen, diskVolumePath, diskTargetDev>>
       ELSE /\ inflight' = Done(req)
            /\ AttachDiskCatch(IF r.status = "net" THEN NetMessage
                               ELSE ErrorOr(r, <<"Failed to attach disk">>))
            /\ isAttachingDisk' = FALSE
  /\ UNCHANGED <<view, mounted, route, isLoading, error>>
  /\ UNCHANGED <<vmData, snapshots, isPerformingAction, snapVars, netVars>>
  /\ UNCHANGED <<storageVars, otherVars>>

handleAttachDisk_refreshed(req, r) ==
  /\ req.h = "handleAttachDisk" /\ req.op = "getById"
  /\ r \in GetByIdResponses \cup AttachGetByIdResponses
  /\ route = "here"
  /\ vmData' = RefreshedVmData(r)
  /\ event' = ResponseEvent(req, r)
  /\ IF r.status = "ok"
       THEN /\ inflight' = Done(req) (+) SnapshotsEffect(vmData, r.vm)
            /\ isAddDiskOpen' = FALSE
            /\ diskVolumePath' = "" /\ diskTargetDev' = ""
            /\ toast' = Toast("Success",
                 <<"Disk attached successfully as ", req.arg[2]>>, "")
       ELSE /\ inflight' = Done(req)
            /\ AttachDiskCatch(<<r.error>>)
  /\ isAttachingDisk' = FALSE
  /\ UNCHANGED <<view, mounted, route, isLoading, error>>
  /\ UNCHANGED <<snapshots, isPerformingAction, snapVars, netVars>>
  /\ UNCHANGED <<storageVars, otherVars>>

-----------------------------------------------------------------------------
(* Add Interface dialog (lines 868-928) and handleAttachNetwork (300-342) *)

NetworkNames  == {"", "default"}
\* A <select> with a fourth option the backend does not know.
NetworkModels_extraOption == {"virtio", "e1000", "rtl8139", "ne2k_pci"}
\* The <option> values of the model <select> (lines 905-907).
NetworkModels == {"virtio", "e1000", "rtl8139"}

setIsAddNetworkOpen(open) ==
  /\ VMShown
  /\ IF open THEN NoDialog ELSE isAddNetworkOpen
  /\ isAddNetworkOpen' = open
  /\ event' = UserEvent(IF open THEN "openAddNetwork" ELSE "closeAddNetwork", "none")
  /\ toast' = NoToast
  /\ UNCHANGED <<view, mounted, route, isLoading, error, inflight>>
  /\ UNCHANGED <<vmData, snapshots, isPerformingAction, snapVars, diskVars>>
  /\ UNCHANGED <<networkName, networkModel, isAttachingNetwork>>
  /\ UNCHANGED <<storageVars, otherVars>>

\* onChange of the input and of the <select> (lines 890, 902-908).
editNetworkForm(name, model) ==
  /\ VMShown /\ isAddNetworkOpen
  /\ name \in NetworkNames /\ model \in NetworkModels
  /\ <<name, model>> # <<networkName, networkModel>>
  /\ networkName' = name /\ networkModel' = model
  /\ event' = UserEvent("editNetworkForm", "none")
  /\ toast' = NoToast
  /\ UNCHANGED <<view, mounted, route, isLoading, error, inflight>>
  /\ UNCHANGED <<vmData, snapshots, isPerformingAction, snapVars, diskVars>>
  /\ UNCHANGED <<isAddNetworkOpen, isAttachingNetwork>>
  /\ UNCHANGED <<storageVars, otherVars>>

\* The dialog's submit button (line 915).
AttachNetworkEnabled == ~isAttachingNetwork /\ networkName # ""

handleAttachNetwork ==
  /\ VMShown /\ isAddNetworkOpen /\ CanSend
  /\ AttachNetworkEnabled
  /\ ~(vmData.uuid = "" \/ networkName = "" \/ networkModel = "")
  /\ isAttachingNetwork' = TRUE
  /\ inflight' = Send(Req("handleAttachNetwork", "postAttachNetwork",
                                      <<networkName, networkModel>>))
  /\ event' = UserEvent("attachNetwork", "none")
  /\ toast' = NoToast
  /\ UNCHANGED <<view, mounted, route, isLoading, error>>
  /\ UNCHANGED <<vmData, snapshots, isPerformingAction, snapVars, diskVars>>
  /\ UNCHANGED <<isAddNetworkOpen, networkName, networkModel>>
  /\ UNCHANGED <<storageVars, otherVars>>

AttachNetworkFailedToast(message) ==
  Toast("Error", <<"Failed to attach network interface: ">> \o message, "destructive")

handleAttachNetwork_posted(req, r) ==
  /\ req.h = "handleAttachNetwork" /\ req.op = "postAttachNetwork"
  /\ r \in MutationResponses
  /\ route = "here"
  /\ event' = ResponseEvent(req, r)
  /\ IF r.status = "ok"
       THEN /\ inflight' = Follow(req, [req EXCEPT !.op = "getById"])
            /\ toast' = NoToast /\ UNCHANGED isAttachingNetwork
       ELSE /\ inflight' = Done(req)
            /\ toast' = AttachNetworkFailedToast(
                 IF r.status = "net" THEN NetMessage
                 ELSE ErrorOr(r, <<"Failed to attach network interface">>))
            /\ isAttachingNetwork' = FALSE
  /\ UNCHANGED <<view, mounted, route, isLoading, error>>
  /\ UNCHANGED <<vmData, snapshots, isPerformingAction, snapVars, diskVars>>
  /\ UNCHANGED <<isAddNetworkOpen, networkName, networkModel>>
  /\ UNCHANGED <<storageVars, otherVars>>

handleAttachNetwork_refreshed(req, r) ==
  /\ req.h = "handleAttachNetwork" /\ req.op = "getById"
  /\ r \in GetByIdResponses \cup AttachGetByIdResponses
  /\ route = "here"
  /\ vmData' = RefreshedVmData(r)
  /\ event' = ResponseEvent(req, r)
  /\ IF r.status = "ok"
       THEN /\ inflight' = Done(req) (+) SnapshotsEffect(vmData, r.vm)
            /\ isAddNetworkOpen' = FALSE
            /\ networkName' = "" /\ networkModel' = "virtio"
            /\ toast' = Toast("Success", <<"Network interface attached successfully">>, "")
       ELSE /\ inflight' = Done(req)
            /\ toast' = AttachNetworkFailedToast(<<r.error>>)
            /\ UNCHANGED <<isAddNetworkOpen, networkName, networkModel>>
  /\ isAttachingNetwork' = FALSE
  /\ UNCHANGED <<view, mounted, route, isLoading, error>>
  /\ UNCHANGED <<snapshots, isPerformingAction, snapVars, diskVars>>
  /\ UNCHANGED <<storageVars, otherVars>>

-----------------------------------------------------------------------------
(* The storage backend behind storageAPI, after the design's Storage        *)
(* Manager: volume names are unique within a pool, a pool's allocation is   *)
(* the sum of its volumes, createVolume fails when the allocation would     *)
(* exceed the capacity, and any call may fail in the driver.  A request is  *)
(* served at the moment its response is handled.                           *)

\* Byte counts are held in units of 1024 bytes: 1024 * 1024 * 1024 bytes.
GiB == 1024 * 1024
\* Capacity of every pool, in GB.
PoolCapacityGB == 12
PoolOrder == <<"default", "fast">>

RECURSIVE SumSizeGB(_)
SumSizeGB(vs) == IF vs = <<>> THEN 0 ELSE Head(vs).sizeGB + SumSizeGB(Tail(vs))

SrvPoolNames == SelectSeq(PoolOrder, LAMBDA p : p \in DOMAIN srvVolumes)
SrvAllocationGB(p) == SumSizeGB(srvVolumes[p])
\* The state each pool is in.
SrvPoolState(p) == IF p = "default" THEN "Active" ELSE "Inactive"
SrvPool(p) == [name |-> p, state |-> SrvPoolState(p),
               capacity_b |-> PoolCapacityGB * GiB,
               allocation_b |-> SrvAllocationGB(p) * GiB]
SrvPools == [k \in DOMAIN SrvPoolNames |-> SrvPool(SrvPoolNames[k])]
SrvVolume(p, v) == [name |-> v.name, path |-> <<"/var/lib/flint/", p, "/", v.name>>,
                    capacity_b |-> v.sizeGB * GiB]
SrvVolumeList(p) == [k \in DOMAIN srvVolumes[p] |-> SrvVolume(p, srvVolumes[p][k])]
SrvHas(p, name) == \E k \in DOMAIN srvVolumes[p] : srvVolumes[p][k].name = name

\* The error createVolume(p, name, sizeGB) is refused with, "" when it is served.
SrvCreateError(p, name, sizeGB) ==
  IF name = "" \/ sizeGB < 1 THEN "ValidationError"
  ELSE IF SrvHas(p, name) THEN "ConflictError"
  ELSE IF SrvAllocationGB(p) + sizeGB > PoolCapacityGB THEN "CapacityError"
  ELSE ""

PoolsResponses == {OkList(SrvPools), ApiThrow("Failed to fetch")}
VolumesResponses(p) == {OkList(SrvVolumeList(p)), ApiThrow("DriverError")}
CreateVolumeResponses(p, name, sizeGB) ==
  {ApiThrow("DriverError"),
   IF SrvCreateError(p, name, sizeGB) = "" THEN Ok2xx
   ELSE ApiThrow(SrvCreateError(p, name, sizeGB))}
DeleteVolumeResponses(p, name) ==
  {NetErr, HttpErr(TRUE, "DriverError"),
   IF SrvHas(p, name) THEN Ok2xx ELSE HttpErr(TRUE, "NotFoundError")}

\* What the backend may answer the request req with.
StorageResponses(req) ==
  CASE req.op = "getPools" -> PoolsResponses
    [] req.op = "getVolumes" -> VolumesResponses(req.arg[1])
    [] req.op = "createVolume" -> CreateVolumeResponses(req.arg[1], req.arg[2], req.size)
    [] req.op = "deleteVolume" -> DeleteVolumeResponses(req.arg[1], req.arg[2])
    [] OTHER -> {}

\* srvVolumes after createVolume / deleteVolume has been answered with r.
SrvCreated(p, name, sizeGB, r) ==
  IF r.status = "ok"
    THEN [srvVolumes EXCEPT ![p] = Append(@, [name |-> name, sizeGB |-> sizeGB])]
    ELSE srvVolumes
SrvDeleted(p, name, r) ==
  IF r.status = "ok"
    THEN [srvVolumes EXCEPT ![p] = SelectSeq(@, LAMBDA v : v.name # name)]
    ELSE srvVolumes

InitStorage ==
  /\ view = "storage" /\ InitEnv /\ InitVM /\ InitStorageView
  /\ srvVolumes \in {<<>>,
                     [p \in {"default", "fast"} |->
                        IF p = "default" THEN <<[name |-> "v1", sizeGB |-> 1]>> ELSE <<>>]}
  /\ InitImagesView /\ NoI18n
  /\ lastRefresh = NoRefresh

-----------------------------------------------------------------------------
(* StorageView *)

\* PoolStatusBadge (lines 29-63): the badge rendered for a state.
PoolStatusBadge(state) ==
  CASE state = "Active" -> "active"
    [] state = "Inactive" -> "inactive"
    [] state = "Building" -> "building"
    [] state \in {"Degraded", "Inaccessible"} -> "destructive"
    [] OTHER -> "unknown"

\* The badge of a pool's card in the list (line 346) and of the selected
\* pool's details (line 447): both pass the literal state "Active".
PoolCardBadge(pool) == PoolStatusBadge("Active")
SelectedPoolBadge == PoolStatusBadge("Active")

\* A render without the `if (error)` return of line 199.
StorageShown_ignoresError == view = "storage" /\ mounted /\ ~isLoading

\* The main render of StorageView is on screen (lines 188, 199, 210).
StorageShown == view = "storage" /\ mounted /\ ~isLoading /\ error = NoError

\* useEffect(fetchStorageData, []) up to the Promise.all (lines 83-92).
fetchStorageData ==
  /\ view = "storage" /\ ~mounted
  /\ mounted' = TRUE
  /\ isLoading' = TRUE /\ error' = NoError
  /\ inflight' = Send(Req("fetchStorageData", "getPools", <<>>))
  /\ event' = [NoEvent EXCEPT !.type = "mount"]
  /\ toast' = NoToast
  /\ UNCHANGED <<view, route, storageVars>>
  /\ UNCHANGED <<vmVars, otherVars>>

\* After Promise.all([getPools(), getResources()]) (lines 93-121); the host
\* resources are only displayed and are left out.
fetchStorageData_pools(req, r) ==
  /\ req = Req("fetchStorageData", "getPools", <<>>)
  /\ r \in PoolsResponses
  /\ event' = ResponseEvent(req, r)
  /\ toast' = NoToast
  /\ IF r.status = "ok"
       THEN /\ storagePools' = r.list.items
            /\ IF Len(r.list.items) > 0 /\ r.list.items[1].name # ""
                 THEN /\ selectedPool' = r.list.items[1]
                      /\ inflight' = Follow(req, Req("fetchStorageData", "getVolumes",
                                                     <<r.list.items[1].name>>))
                      /\ UNCHANGED <<volumes, isLoading>>
                 ELSE /\ selectedPool' = NoPool /\ volumes' = <<>>
                      /\ inflight' = Done(req)
                      /\ isLoading' = FALSE
            /\ UNCHANGED error
       ELSE /\ error' = r.error
            /\ isLoading' = FALSE
            /\ inflight' = Done(req)
            /\ UNCHANGED <<storagePools, selectedPool, volumes>>
  /\ UNCHANGED <<view, mounted, route, formVars, srvVolumes>>
  /\ UNCHANGED <<vmVars, otherVars>>

\* After the first pool's getVolumes (lines 101-107, 119-121).
fetchStorageData_volumes(req, r) ==
  /\ req.h = "fetchStorageData" /\ req.op = "getVolumes"
  /\ r \in VolumesResponses(req.arg[1])
  /\ event' = ResponseEvent(req, r)
  /\ toast' = NoToast
  /\ volumes' = IF r.status = "ok" THEN r.list.items ELSE <<>>
  /\ isLoading' = FALSE
  /\ inflight' = Done(req)
  /\ UNCHANGED <<view, mounted, route, error>>
  /\ UNCHANGED <<storagePools, selectedPool, formVars, srvVolumes>>
  /\ UNCHANGED <<vmVars, otherVars>>

\* Click on a pool card (lines 333-340) and handlePoolSelect (lines 127-135).
handlePoolSelect(k) ==
  /\ StorageShown /\ ~isCreateVolumeDialogOpen /\ CanSend
  /\ k \in DOMAIN storagePools
  /\ storagePools[k].name # ""
  /\ selectedPool' = storagePools[k]
  /\ volumes' = <<>>
  /\ inflight' = Send(Req("handlePoolSelect", "getVolumes", <<storagePools[k].name>>))
  /\ event' = UserEvent("selectPool", "none")
  /\ toast' = NoToast
  /\ UNCHANGED <<view, mounted, route, isLoading, error>>
  /\ UNCHANGED <<storagePools, formVars, srvVolumes>>
  /\ UNCHANGED <<vmVars, otherVars>>

\* handlePoolSelect after `await storageAPI.getVolumes(pool.name)` (lines 136-142).
handlePoolSelect_volumes(req, r) ==
  /\ req.h = "handlePoolSelect" /\ req.op = "getVolumes"
  /\ r \in VolumesResponses(req.arg[1])
  /\ event' = ResponseEvent(req, r)
  /\ toast' = NoToast
  /\ volumes' = IF r.status = "ok" THEN r.list.items ELSE <<>>
  /\ inflight' = Done(req)
  /\ UNCHANGED <<view, mounted, route, isLoading, error>>
  /\ UNCHANGED <<storagePools, selectedPool, formVars, srvVolumes>>
  /\ UNCHANGED <<vmVars, otherVars>>

\* What the Create Volume dialog accepts: the name field, and the size field
\* after Number(e.target.value) (lines 398, 412).
VolumeNames == {"", "v2"}
VolumeSizes == {0}

\* Dialog onOpenChange={setIsCreateVolumeDialogOpen} (line 374).
setIsCreateVolumeDialogOpen(open) ==
  /\ StorageShown /\ selectedPool.name # ""
  /\ isCreateVolumeDialogOpen # open
  /\ isCreateVolumeDialogOpen' = open
  /\ event' = UserEvent(IF open THEN "openCreateVolume" ELSE "closeCreateVolume", "none")
  /\ toast' = NoToast
  /\ UNCHANGED <<view, mounted, route, isLoading, error, inflight>>
  /\ UNCHANGED <<storagePools, volumes, selectedPool>>
  /\ UNCHANGED <<newVolumeName, newVolumeSize, isCreatingVolume, srvVolumes>>
  /\ UNCHANGED <<vmVars, otherVars>>

\* onChange of the two inputs (lines 398, 412).
editVolumeForm(name, size) ==
  /\ StorageShown /\ isCreateVolumeDialogOpen
  /\ name \in VolumeNames /\ size \in VolumeSizes \cup {newVolumeSize}
  /\ <<name, size>> # <<newVolumeName, newVolumeSize>>
  /\ name = newVolumeName \/ size = newVolumeSize
  /\ newVolumeName' = name /\ newVolumeSize' = size
  /\ event' = UserEvent("editVolumeForm", "none")
  /\ toast' = NoToast
  /\ UNCHANGED <<view, mounted, route, isLoading, error, inflight>>
  /\ UNCHANGED <<storagePools, volumes, selectedPool>>
  /\ UNCHANGED <<isCreateVolumeDialogOpen, isCreatingVolume, srvVolumes>>
  /\ UNCHANGED <<vmVars, otherVars>>

\* disabled={isCreatingVolume || !newVolumeName} (line 421).
CreateVolumeEnabled == ~isCreatingVolume /\ newVolumeName # ""

\* handleCreateVolume up to `await storageAPI.createVolume` (lines 153-161).
\* The list on screen is explored up to MaxVolumes rows.
handleCreateVolume ==
  /\ StorageShown /\ isCreateVolumeDialogOpen /\ CreateVolumeEnabled /\ CanSend
  /\ Len(volumes) < MaxVolumes
  /\ selectedPool.name # ""
  /\ isCreatingVolume' = TRUE
  /\ inflight' = Send([Req("handleCreateVolume", "createVolume",
                           <<selectedPool.name, newVolumeName>>)
                         EXCEPT !.size = newVolumeSize])
  /\ event' = UserEvent("createVolume", "none")
  /\ toast' = NoToast
  /\ UNCHANGED <<view, mounted, route, isLoading, error>>
  /\ UNCHANGED <<storagePools, volumes, selectedPool, srvVolumes>>
  /\ UNCHANGED <<isCreateVolumeDialogOpen, newVolumeName, newVolumeSize>>
  /\ UNCHANGED <<vmVars, otherVars>>

\* handleCreateVolume after createVolume (lines 162-165, 181-185).
handleCreateVolume_created(req, r) ==
  /\ req.h = "handleCreateVolume" /\ req.op = "createVolume"
  /\ r \in CreateVolumeResponses(req.arg[1], req.arg[2], req.size)
  /\ srvVolumes' = SrvCreated(req.arg[1], req.arg[2], req.size, r)
  /\ event' = ResponseEvent(req, r)
  /\ toast' = NoToast
  /\ IF r.status = "ok"
       THEN /\ inflight' = Follow(req, [req EXCEPT !.op = "getVolumes"])
            /\ UNCHANGED <<error, isCreatingVolume>>
       ELSE /\ error' = r.error
            /\ isCreatingVolume' = FALSE
            /\ inflight' = Done(req)
  /\ UNCHANGED <<view, mounted, route, isLoading>>
  /\ UNCHANGED <<storagePools, volumes, selectedPool>>
  /\ UNCHANGED <<isCreateVolumeDialogOpen, newVolumeName, newVolumeSize>>
  /\ UNCHANGED <<vmVars, otherVars>>

\* The entry the catch of the refresh puts in the list (lines 170-174).
FabricatedVolume(pool, name, sizeGB) ==
  [name |-> name, path |-> <<pool, "/", name>>, capacity_b |-> sizeGB * GiB]

\* The list after the refresh of handleCreateVolume (lines 164-175).
VolumesAfterCreate_keepsList(req, r) ==
  IF r.status = "ok" THEN r.list.items ELSE volumes
VolumesAfterCreate(req, r) ==
  IF r.status = "ok" THEN r.list.items
  ELSE Append(volumes, FabricatedVolume(req.arg[1], req.arg[2], req.size))

\* handleCreateVolume after the refresh (lines 166-185).
handleCreateVolume_refreshed(req, r) ==
  /\ req.h = "handleCreateVolume" /\ req.op = "getVolumes"
  /\ r \in VolumesResponses(req.arg[1])
  /\ event' = ResponseEvent(req, r)
  /\ toast' = NoToast
  /\ volumes' = VolumesAfterCreate(req, r)
  /\ isCreateVolumeDialogOpen' = FALSE
  /\ newVolumeName' = "" /\ newVolumeSize' = DefaultVolumeSize
  /\ isCreatingVolume' = FALSE
  /\ inflight' = Done(req)
  /\ UNCHANGED <<view, mounted, route, isLoading, error>>
  /\ UNCHANGED <<storagePools, selectedPool, srvVolumes>>
  /\ UNCHANGED <<vmVars, otherVars>>

\* Click on a volume row's delete button up to the fetch (lines 517-531).
deleteVolume(k, confirmed) ==
  /\ StorageShown /\ ~isCreateVolumeDialogOpen /\ CanSend
  /\ selectedPool.name # ""
  /\ k \in DOMAIN volumes
  /\ event' = UserEvent("deleteVolume", IF confirmed THEN "accepted" ELSE "declined")
  /\ toast' = NoToast
  /\ inflight' = IF confirmed
                   THEN Send(Req("deleteVolume", "deleteVolume",
                                 <<selectedPool.name, volumes[k].name>>))
                   ELSE inflight
  /\ UNCHANGED <<view, mounted, route, isLoading, error, storageVars>>
  /\ UNCHANGED <<vmVars, otherVars>>

DeleteVolumeFailedToast(message) == Toast("Delete Failed", message, "destructive")

\* The delete handler after the DELETE (lines 532-535, 541-547).
deleteVolume_deleted(req, r) ==
  /\ req.h = "deleteVolume" /\ req.op = "deleteVolume"
  /\ r \in DeleteVolumeResponses(req.arg[1], req.arg[2])
  /\ srvVolumes' = SrvDeleted(req.arg[1], req.arg[2], r)
  /\ event' = ResponseEvent(req, r)
  /\ IF r.status = "ok"
       THEN /\ inflight' = Follow(req, [req EXCEPT !.op = "getVolumes"])
            /\ toast' = NoToast
       ELSE /\ inflight' = Done(req)
            /\ toast' = DeleteVolumeFailedToast(
                          IF r.status = "net" THEN NetMessage
                          ELSE <<"Failed to delete volume">>)
  /\ UNCHANGED <<view, mounted, route, isLoading, error>>
  /\ UNCHANGED <<storagePools, volumes, selectedPool, formVars>>
  /\ UNCHANGED <<vmVars, otherVars>>

\* The delete handler after the refresh (lines 535-547).
deleteVolume_refreshed(req, r) ==
  /\ req.h = "deleteVolume" /\ req.op = "getVolumes"
  /\ r \in VolumesResponses(req.arg[1])
  /\ event' = ResponseEvent(req, r)
  /\ inflight' = Done(req)
  /\ IF r.status = "ok"
       THEN /\ volumes' = r.list.items
            /\ toast' = Toast("Success", <<"Volume \"", req.arg[2], "\" deleted successfully">>,
                              "")
       ELSE /\ toast' = DeleteVolumeFailedToast(<<r.error>>)
            /\ UNCHANGED volumes
  /\ UNCHANGED <<view, mounted, route, isLoading, error>>
  /\ UNCHANGED <<storagePools, selectedPool, formVars, srvVolumes>>
  /\ UNCHANGED <<vmVars, otherVars>>

-----------------------------------------------------------------------------
(* ImagesView (storage-view.tsx:619-987)                                    *)

\* What imageAPI.getAll can resolve to, and the rejection of an imageAPI call.
Image(id)   == [id |-> id, name |-> id]
ImageLists  == {<<>>, <<Image("img1")>>}
ImagesResponses        == {OkList(l) : l \in ImageLists} \cup {ApiThrow("DriverError")}
ImageMutationResponses == {Ok2xx, ApiThrow("DriverError")}

\* The main render of ImagesView is on screen (lines 764, 768).
ImagesShown == view = "images" /\ mounted /\ ~isLoading /\ error = NoError

\* useEffect(fetchImages, []) up to the await (lines 633-637).
fetchImages ==
  /\ view = "images" /\ ~mounted
  /\ mounted' = TRUE
  /\ isLoading' = TRUE
  /\ inflight' = Send(Req("fetchImages", "getAll", <<>>))
  /\ event' = [NoEvent EXCEPT !.type = "mount"]
  /\ toast' = NoToast
  /\ UNCHANGED <<view, route, error, imageVars>>
  /\ UNCHANGED <<vmVars, storageVars, i18nVars>>

\* fetchImages after `await imageAPI.getAll()` (lines 637-644).
fetchImages_response(req, r) ==
  /\ req = Req("fetchImages", "getAll", <<>>)
  /\ r \in ImagesResponses
  /\ event' = ResponseEvent(req, r)
  /\ inflight' = Done(req)
  /\ IF r.status = "ok"
       THEN images' = r.list.items /\ UNCHANGED error
       ELSE error' = r.error /\ UNCHANGED images
  /\ isLoading' = FALSE
  /\ UNCHANGED <<isAddDialogOpen, isUploading, importPath, downloadUrl,
                 isImporting, isDownloading>>
  /\ UNCHANGED <<view, mounted, route>> /\ toast' = NoToast
  /\ UNCHANGED <<vmVars, storageVars, i18nVars>>

\* Dialog open / onOpenChange (line 783).
setIsAddDialogOpen(open) ==
  /\ ImagesShown
  /\ isAddDialogOpen # open
  /\ isAddDialogOpen' = open
  /\ event' = UserEvent(IF open THEN "openAddImage" ELSE "closeAddImage", "none")
  /\ UNCHANGED <<isLoading, error, inflight>>
  /\ UNCHANGED <<images, isUploading, importPath, downloadUrl, isImporting, isDownloading>>
  /\ UNCHANGED <<view, mounted, route>> /\ toast' = NoToast
  /\ UNCHANGED <<vmVars, storageVars, i18nVars>>

\* What the two text inputs of the dialog accept (lines 835-840, 878-883).
ImportPaths  == {"", " ", "/iso/a.iso"}
DownloadUrls == {"", "http://h/a.iso"}

\* onChange of the Host Path input, disabled while isImporting (lines 837-839).
setImportPath(path) ==
  /\ ImagesShown /\ isAddDialogOpen /\ ~isImporting
  /\ path # importPath
  /\ importPath' = path
  /\ event' = UserEvent("editImportPath", "none")
  /\ UNCHANGED <<isLoading, error, inflight>>
  /\ UNCHANGED <<images, isAddDialogOpen, isUploading, downloadUrl, isImporting, isDownloading>>
  /\ UNCHANGED <<view, mounted, route>> /\ toast' = NoToast
  /\ UNCHANGED <<vmVars, storageVars, i18nVars>>

\* onChange of the Download URL input, disabled while isDownloading (lines 880-882).
setDownloadUrl(url) ==
  /\ ImagesShown /\ isAddDialogOpen /\ ~isDownloading
  /\ url # downloadUrl
  /\ downloadUrl' = url
  /\ event' = UserEvent("editDownloadUrl", "none")
  /\ UNCHANGED <<isLoading, error, inflight>>
  /\ UNCHANGED <<images, isAddDialogOpen, isUploading, importPath, isImporting, isDownloading>>
  /\ UNCHANGED <<view, mounted, route>> /\ toast' = NoToast
  /\ UNCHANGED <<vmVars, storageVars, i18nVars>>

\* handleFileUpload (lines 717-733), from the file input's onChange, disabled while
\* isUploading (lines 815-819), up to `await imageAPI.upload(file)`.
handleFileUpload ==
  /\ ImagesShown /\ isAddDialogOpen /\ CanSend
  /\ ~isUploading
  /\ isUploading' = TRUE
  /\ inflight' = Send(Req("handleFileUpload", "upload", <<"file.iso">>))
  /\ event' = UserEvent("handleFileUpload", "none")
  /\ UNCHANGED <<isLoading, error>>
  /\ UNCHANGED <<images, isAddDialogOpen, importPath, downloadUrl, isImporting, isDownloading>>
  /\ UNCHANGED <<view, mounted, route>> /\ toast' = NoToast
  /\ UNCHANGED <<vmVars, storageVars, i18nVars>>

\* handleFileUpload after `await imageAPI.upload(...)` (lines 722-723, 727-732).
handleFileUpload_done(req, r) ==
  /\ req.h = "handleFileUpload" /\ req.op = "upload"
  /\ r \in ImageMutationResponses
  /\ event' = ResponseEvent(req, r)
  /\ IF r.status = "ok"
       THEN /\ isAddDialogOpen' = FALSE
            /\ inflight' = Follow(req, [req EXCEPT !.op = "getAll"])
            /\ UNCHANGED <<error, isUploading>>
       ELSE /\ error' = r.error
            /\ isUploading' = FALSE
            /\ inflight' = Done(req)
            /\ UNCHANGED <<isAddDialogOpen>>
  /\ UNCHANGED <<isLoading, images>>
  /\ UNCHANGED <<importPath, downloadUrl, isImporting, isDownloading>>
  /\ UNCHANGED <<view, mounted, route>> /\ toast' = NoToast
  /\ UNCHANGED <<vmVars, storageVars, i18nVars>>

\* handleFileUpload after the refresh `await imageAPI.getAll()`, its catch and its finally.
handleFileUpload_refreshed(req, r) ==
  /\ req.h = "handleFileUpload" /\ req.op = "getAll"
  /\ r \in ImagesResponses
  /\ event' = ResponseEvent(req, r)
  /\ inflight' = Done(req)
  /\ IF r.status = "ok"
       THEN images' = r.list.items /\ UNCHANGED error
       ELSE error' = r.error /\ UNCHANGED images
  /\ isUploading' = FALSE
  /\ UNCHANGED <<isLoading, isAddDialogOpen>>
  /\ UNCHANGED <<importPath, downloadUrl, isImporting, isDownloading>>
  /\ UNCHANGED <<view, mounted, route>> /\ toast' = NoToast
  /\ UNCHANGED <<vmVars, storageVars, i18nVars>>

\* An onClick whose setIsImporting(false) ends the try block instead of sitting
\* in a finally: a rejected call leaves the flag raised.
ImportingAfter_noFinally(r) == r.status # "ok"

\* isImporting once the onClick has run to its end after the answer r: the
\* finally lowers it on every path (lines 859-861).
ImportingAfter(r) == FALSE

\* The Import Image button (lines 845-863): disabled for a blank path and while
\* isImporting; its onClick up to `await imageAPI.importFromPath(...)`.
importImage ==
  /\ ImagesShown /\ isAddDialogOpen /\ CanSend
  /\ Trim(importPath) # "" /\ ~isImporting
  /\ isImporting' = TRUE
  /\ inflight' = Send(Req("importImage", "importFromPath", <<importPath>>))
  /\ event' = UserEvent("importImage", "none")
  /\ UNCHANGED <<isLoading, error>>
  /\ UNCHANGED <<images, isAddDialogOpen, isUploading, importPath, downloadUrl, isDownloading>>
  /\ UNCHANGED <<view, mounted, route>> /\ toast' = NoToast
  /\ UNCHANGED <<vmVars, storageVars, i18nVars>>

\* importImage after `await imageAPI.importFromPath(...)` (lines 851-853, 857-861).
importImage_done(req, r) ==
  /\ req.h = "importImage" /\ req.op = "importFromPath"
  /\ r \in ImageMutationResponses
  /\ event' = ResponseEvent(req, r)
  /\ IF r.status = "ok"
       THEN /\ isAddDialogOpen' = FALSE
            /\ importPath' = ""
            /\ inflight' = Follow(req, [req EXCEPT !.op = "getAll"])
            /\ UNCHANGED <<error, isImporting>>
       ELSE /\ error' = r.error
            /\ isImporting' = ImportingAfter(r)
            /\ inflight' = Done(req)
            /\ UNCHANGED <<isAddDialogOpen, importPath>>
  /\ UNCHANGED <<isLoading, images>>
  /\ UNCHANGED <<isUploading, downloadUrl, isDownloading>>
  /\ UNCHANGED <<view, mounted, route>> /\ toast' = NoToast
  /\ UNCHANGED <<vmVars, storageVars, i18nVars>>

\* importImage after the refresh `await imageAPI.getAll()`, its catch and its finally.
importImage_refreshed(req, r) ==
  /\ req.h = "importImage" /\ req.op = "getAll"
  /\ r \in ImagesResponses
  /\ event' = ResponseEvent(req, r)
  /\ inflight' = Done(req)
  /\ IF r.status = "ok"
       THEN images' = r.list.items /\ UNCHANGED error
       ELSE error' = r.error /\ UNCHANGED images
  /\ isImporting' = ImportingAfter(r)
  /\ UNCHANGED <<isLoading, isAddDialogOpen, importPath>>
  /\ UNCHANGED <<isUploading, downloadUrl, isDownloading>>
  /\ UNCHANGED <<view, mounted, route>> /\ toast' = NoToast
  /\ UNCHANGED <<vmVars, storageVars, i18nVars>>

\* The Download Image button (lines 888-906): disabled for a blank URL and while
\* isDownloading; its onClick up to `await imageAPI.download(...)`.
downloadImage ==
  /\ ImagesShown /\ isAddDialogOpen /\ CanSend
  /\ Trim(downloadUrl) # "" /\ ~isDownloading
  /\ isDownloading' = TRUE
  /\ inflight' = Send(Req("downloadImage", "download", <<downloadUrl>>))
  /\ event' = UserEvent("downloadImage", "none")
  /\ UNCHANGED <<isLoading, error>>
  /\ UNCHANGED <<images, isAddDialogOpen, isUploading, importPath, downloadUrl, isImporting>>
  /\ UNCHANGED <<view, mounted, route>> /\ toast' = NoToast
  /\ UNCHANGED <<vmVars, storageVars, i18nVars>>

\* downloadImage after `await imageAPI.download(...)` (lines 894-896, 900-904).
downloadImage_done(req, r) ==
  /\ req.h = "downloadImage" /\ req.op = "download"
  /\ r \in ImageMutationResponses
  /\ event' = ResponseEvent(req, r)
  /\ IF r.status = "ok"
       THEN /\ isAddDialogOpen' = FALSE
            /\ downloadUrl' = ""
            /\ inflight' = Follow(req, [req EXCEPT !.op = "getAll"])
            /\ UNCHANGED <<error, isDownloading>>
       ELSE /\ error' = r.error
            /\ isDownloading' = FALSE
            /\ inflight' = Done(req)
            /\ UNCHANGED <<isAddDialogOpen, downloadUrl>>
  /\ UNCHANGED <<isLoading, images>>
  /\ UNCHANGED <<isUploading, importPath, isImporting>>
  /\ UNCHANGED <<view, mounted, route>> /\ toast' = NoToast
  /\ UNCHANGED <<vmVars, storageVars, i18nVars>>

\* downloadImage after the refresh `await imageAPI.getAll()`, its catch and its finally.
downloadImage_refreshed(req, r) ==
  /\ req.h = "downloadImage" /\ req.op = "getAll"
  /\ r \in ImagesResponses
  /\ event' = ResponseEvent(req, r)
  /\ inflight' = Done(req)
  /\ IF r.status = "ok"
       THEN images' = r.list.items /\ UNCHANGED error
       ELSE error' = r.error /\ UNCHANGED images
  /\ isDownloading' = FALSE
  /\ UNCHANGED <<isLoading, isAddDialogOpen, downloadUrl>>
  /\ UNCHANGED <<isUploading, importPath, isImporting>>
  /\ UNCHANGED <<view, mounted, route>> /\ toast' = NoToast
  /\ UNCHANGED <<vmVars, storageVars, i18nVars>>

\* handleDeleteImage (lines 750-762) from a row of the images table, up to
\* `await imageAPI.delete(imageId)`.
handleDeleteImage(k, confirmed) ==
  /\ ImagesShown /\ ~isAddDialogOpen /\ CanSend
  /\ k \in DOMAIN images
  /\ event' = UserEvent("deleteImage", IF confirmed THEN "yes" ELSE "no")
  /\ inflight' = IF confirmed
                   THEN Send(Req("handleDeleteImage", "deleteImage", <<images[k].id>>))
                   ELSE inflight
  /\ UNCHANGED <<isLoading, error, imageVars>>
  /\ UNCHANGED <<view, mounted, route>> /\ toast' = NoToast
  /\ UNCHANGED <<vmVars, storageVars, i18nVars>>

\* handleDeleteImage after `await imageAPI.delete(imageId)` (lines 756, 759-761).
handleDeleteImage_done(req, r) ==
  /\ req.h = "handleDeleteImage" /\ req.op = "deleteImage"
  /\ r \in ImageMutationResponses
  /\ event' = ResponseEvent(req, r)
  /\ IF r.status = "ok"
       THEN inflight' = Follow(req, [req EXCEPT !.op = "getAll"]) /\ UNCHANGED error
       ELSE inflight' = Done(req) /\ error' = r.error
  /\ UNCHANGED <<isLoading, imageVars>>
  /\ UNCHANGED <<view, mounted, route>> /\ toast' = NoToast
  /\ UNCHANGED <<vmVars, storageVars, i18nVars>>

\* handleDeleteImage after the refresh `await imageAPI.getAll()` (lines 758-761).
handleDeleteImage_refreshed(req, r) ==
  /\ req.h = "handleDeleteImage" /\ req.op = "getAll"
  /\ r \in ImagesResponses
  /\ event' = ResponseEvent(req, r)
  /\ inflight' = Done(req)
  /\ IF r.status = "ok"
       THEN images' = r.list.items /\ UNCHANGED error
       ELSE error' = r.error /\ UNCHANGED images
  /\ UNCHANGED <<isLoading, isAddDialogOpen, isUploading, importPath, downloadUrl,
                 isImporting, isDownloading>>
  /\ UNCHANGED <<view, mounted, route>> /\ toast' = NoToast
  /\ UNCHANGED <<vmVars, storageVars, i18nVars>>

-----------------------------------------------------------------------------
(* I18nProvider (i18n-provider.tsx:14-69)                                   *)

\* type Locale, and what localStorage.getItem('locale') can return: null (""),
\* a locale, or a string that is no locale (line 38 compares with ===).
Locales      == {"en", "zh"}
SavedLocales == {"", "en", "zh", "fr", "EN", "zh-CN"}

\* The steps of I18nProvider leave the views' state alone.
I18nFrame ==
  /\ UNCHANGED <<view, mounted, route, isLoading, error, inflight>>
  /\ toast' = NoToast
  /\ UNCHANGED <<vmVars, storageVars, imageVars>>

\* The provider after its first render (lines 21-23): both effects are due.
\* defaultLocale is imported from '@/lib/i18n' and can be either locale.
MountI18n(saved, default) ==
  /\ defaultLocale = default
  /\ locale = default /\ translations = default /\ isInitialized = FALSE
  /\ localStorage = saved /\ localeAtMount = saved
  /\ effects = <<"store", "load">>

\* The effects due after a commit in which locale turned from l into l2 and
\* isInitialized from i into i2, in the order of lines 25 and 34.
EffectsDue(l, l2, i, i2) ==
  (IF l2 # l THEN <<"store">> ELSE <<>>) \o (IF i2 # i THEN <<"load">> ELSE <<>>)

\* What the [locale] effect leaves in localStorage (line 29).
StoredByEffect == locale

\* useEffect on [locale] (lines 25-32).
storeEffect ==
  /\ view = "i18n" /\ effects # <<>> /\ Head(effects) = "store"
  /\ translations' = locale
  /\ localStorage' = StoredByEffect
  /\ effects' = Tail(effects)
  /\ event' = [NoEvent EXCEPT !.type = "effect", !.name = "store"]
  /\ UNCHANGED <<locale, isInitialized, defaultLocale, localeAtMount>>
  /\ I18nFrame

\* useEffect on [isInitialized] (lines 34-51); it is the last effect of its
\* commit, the next commit's effects follow it.
loadEffect ==
  /\ view = "i18n" /\ effects # <<>> /\ Head(effects) = "load"
  /\ IF ~isInitialized
       THEN /\ IF localStorage \in Locales
                 THEN /\ locale' = localStorage /\ translations' = localStorage
                      /\ UNCHANGED localStorage
                 ELSE /\ locale' = defaultLocale /\ translations' = defaultLocale
                      /\ localStorage' = defaultLocale
            /\ isInitialized' = TRUE
       ELSE UNCHANGED <<locale, translations, localStorage, isInitialized>>
  /\ effects' = Tail(effects) \o EffectsDue(locale, locale', isInitialized, isInitialized')
  /\ event' = [NoEvent EXCEPT !.type = "effect", !.name = "load"]
  /\ UNCHANGED <<defaultLocale, localeAtMount>>
  /\ I18nFrame

\* A consumer calls the context's setLocale (line 65) once the effects have run.
setLocale(l) ==
  /\ view = "i18n" /\ effects = <<>>
  /\ l \in Locales
  /\ locale' = l
  /\ effects' = EffectsDue(locale, l, isInitialized, isInitialized)
  /\ event' = UserEvent("setLocale", "none")
  /\ UNCHANGED <<translations, isInitialized, localStorage, defaultLocale, localeAtMount>>
  /\ I18nFrame

\* The page is reloaded: the provider mounts anew over the same localStorage.
reload ==
  /\ view = "i18n" /\ effects = <<>>
  /\ locale' = defaultLocale /\ translations' = defaultLocale /\ isInitialized' = FALSE
  /\ effects' = <<"store", "load">>
  /\ localeAtMount' = localStorage
  /\ event' = UserEvent("reload", "none")
  /\ UNCHANGED <<localStorage, defaultLocale>>
  /\ I18nFrame

-----------------------------------------------------------------------------
(* Specifications.  Spec is VMDetailView with its header buttons and its    *)
(* Snapshots tab, SpecAttach is VMDetailView with its two attach dialogs,   *)
(* SpecStorage is StorageView over the storage backend, SpecSnapshots is    *)
(* the Snapshots tab with the history of its refresh GETs, SpecImages and   *)
(* FairSpecImages are ImagesView, SpecI18n is I18nProvider.                 *)

\* The step's effect on the history variable: a successful snapshot POST or
\* DELETE issues the refresh GET (lines 198, 235), which becomes the most recent
\* one; the answer to the most recent one is kept when it is handled.
RecordRefresh ==
  lastRefresh' =
    IF /\ event'.type = "response" /\ event'.req.op \in {"postSnapshot", "deleteSnapshot"}
       /\ event'.res.status = "ok"
      THEN [NoRefresh EXCEPT !.req = [event'.req EXCEPT !.op = "getSnapshots"]]
    ELSE IF /\ event'.type = "response" /\ event'.req.op = "getSnapshots"
            /\ event'.req = lastRefresh.req /\ ~lastRefresh.answered
      THEN [lastRefresh EXCEPT !.res = event'.res, !.answered = TRUE]
    ELSE lastRefresh

\* A step of a specification that keeps no history.
NoHistory == UNCHANGED lastRefresh

Mount ==
  \/ fetchVMData /\ NoHistory
  \/ \E req \in BagToSet(inflight), r \in GetByIdResponses : fetchVMData_response(req, r) /\ NoHistory
  \/ \E req \in BagToSet(inflight), r \in SnapshotResponses : snapshotsEffect_response(req, r) /\ NoHistory

Header ==
  \/ \E a \in {"start", "stop", "reboot"} : performVMAction(a) /\ NoHistory
  \/ \E req \in BagToSet(inflight), r \in MutationResponses : performVMAction_posted(req, r) /\ NoHistory
  \/ \E req \in BagToSet(inflight), r \in GetByIdResponses : performVMAction_refreshed(req, r) /\ NoHistory
  \/ \E c \in BOOLEAN : deleteVM(c) /\ NoHistory
  \/ \E req \in BagToSet(inflight), r \in MutationResponses : deleteVM_response(req, r) /\ NoHistory

CreateSnapshot ==
  \/ openCreateSnapshot /\ NoHistory
  \/ closeCreateSnapshot /\ NoHistory
  \/ \E n \in SnapshotNames, d \in SnapshotDescriptions : editSnapshotForm(n, d) /\ NoHistory
  \/ handleCreateSnapshot /\ NoHistory
  \/ \E req \in BagToSet(inflight), r \in MutationResponses : handleCreateSnapshot_posted(req, r) /\ NoHistory
  \/ \E req \in BagToSet(inflight), r \in SnapshotResponses : handleCreateSnapshot_refreshed(req, r) /\ NoHistory

DeleteSnapshot ==
  \/ \E n \in SnapshotRows, c \in BOOLEAN : handleDeleteSnapshot(n, c) /\ NoHistory
  \/ \E req \in BagToSet(inflight), r \in MutationResponses : handleDeleteSnapshot_deleted(req, r) /\ NoHistory
  \/ \E req \in BagToSet(inflight), r \in SnapshotResponses : handleDeleteSnapshot_refreshed(req, r) /\ NoHistory

RevertSnapshot ==
  \/ \E n \in SnapshotRows, c \in BOOLEAN : handleRevertSnapshot(n, c) /\ NoHistory
  \/ \E req \in BagToSet(inflight), r \in MutationResponses : handleRevertSnapshot_posted(req, r) /\ NoHistory
  \/ \E req \in BagToSet(inflight), r \in GetByIdResponses : handleRevertSnapshot_refreshed(req, r) /\ NoHistory

AttachDisk ==
  \/ \E o \in BOOLEAN : setIsAddDiskOpen(o) /\ NoHistory
  \/ \E p \in VolumePaths, d \in TargetDevs : editDiskForm(p, d) /\ NoHistory
  \/ handleAttachDisk /\ NoHistory
  \/ \E req \in BagToSet(inflight), r \in MutationResponses : handleAttachDisk_posted(req, r) /\ NoHistory
  \/ \E req \in BagToSet(inflight), r \in AttachGetByIdResponses :
       handleAttachDisk_refreshed(req, r) /\ NoHistory

AttachNetwork ==
  \/ \E o \in BOOLEAN : setIsAddNetworkOpen(o) /\ NoHistory
  \/ \E n \in NetworkNames, m \in NetworkModels : editNetworkForm(n, m) /\ NoHistory
  \/ handleAttachNetwork /\ NoHistory
  \/ \E req \in BagToSet(inflight), r \in MutationResponses : handleAttachNetwork_posted(req, r) /\ NoHistory
  \/ \E req \in BagToSet(inflight), r \in AttachGetByIdResponses :
       handleAttachNetwork_refreshed(req, r) /\ NoHistory

Next ==
  \/ Mount \/ Header \/ CreateSnapshot
  \/ DeleteSnapshot \/ RevertSnapshot
Spec == Init /\ [][Next]_vars

MountWithDevices ==
  \/ fetchVMData /\ NoHistory
  \/ \E req \in BagToSet(inflight), r \in AttachGetByIdResponses : fetchVMData_response(req, r) /\ NoHistory
  \/ \E req \in BagToSet(inflight), r \in SnapshotResponses : snapshotsEffect_response(req, r) /\ NoHistory

NextAttach == MountWithDevices \/ AttachDisk \/ AttachNetwork
SpecAttach == Init /\ [][NextAttach]_vars

Pools ==
  \/ fetchStorageData /\ NoHistory
  \/ \E req \in BagToSet(inflight) : \E r \in StorageResponses(req) :
       fetchStorageData_pools(req, r) /\ NoHistory
  \/ \E req \in BagToSet(inflight) : \E r \in StorageResponses(req) :
       fetchStorageData_volumes(req, r) /\ NoHistory
  \/ \E k \in DOMAIN storagePools : handlePoolSelect(k) /\ NoHistory
  \/ \E req \in BagToSet(inflight) : \E r \in StorageResponses(req) :
       handlePoolSelect_volumes(req, r) /\ NoHistory

CreateVolume ==
  \/ \E o \in BOOLEAN : setIsCreateVolumeDialogOpen(o) /\ NoHistory
  \/ \E n \in VolumeNames, z \in VolumeSizes \cup {DefaultVolumeSize} : editVolumeForm(n, z) /\ NoHistory
  \/ handleCreateVolume /\ NoHistory
  \/ \E req \in BagToSet(inflight) : \E r \in StorageResponses(req) :
       handleCreateVolume_created(req, r) /\ NoHistory
  \/ \E req \in BagToSet(inflight) : \E r \in StorageResponses(req) :
       handleCreateVolume_refreshed(req, r) /\ NoHistory

DeleteVolume ==
  \/ \E k \in DOMAIN volumes, c \in BOOLEAN : deleteVolume(k, c) /\ NoHistory
  \/ \E req \in BagToSet(inflight) : \E r \in StorageResponses(req) :
       deleteVolume_deleted(req, r) /\ NoHistory
  \/ \E req \in BagToSet(inflight) : \E r \in StorageResponses(req) :
       deleteVolume_refreshed(req, r) /\ NoHistory

NextStorage == Pools \/ CreateVolume \/ DeleteVolume
SpecStorage == InitStorage /\ [][NextStorage]_vars

\* VMDetailView's Snapshots tab with the history of its refresh GETs.
MountRecorded ==
  \/ fetchVMData /\ RecordRefresh
  \/ \E req \in BagToSet(inflight), r \in GetByIdResponses : fetchVMData_response(req, r) /\ RecordRefresh
  \/ \E req \in BagToSet(inflight), r \in SnapshotResponses : snapshotsEffect_response(req, r) /\ RecordRefresh

CreateSnapshotRecorded ==
  \/ openCreateSnapshot /\ RecordRefresh
  \/ closeCreateSnapshot /\ RecordRefresh
  \/ \E n \in SnapshotNames, d \in SnapshotDescriptions : editSnapshotForm(n, d) /\ RecordRefresh
  \/ handleCreateSnapshot /\ RecordRefresh
  \/ \E req \in BagToSet(inflight), r \in MutationResponses : handleCreateSnapshot_posted(req, r) /\ RecordRefresh
  \/ \E req \in BagToSet(inflight), r \in SnapshotResponses : handleCreateSnapshot_refreshed(req, r) /\ RecordRefresh

DeleteSnapshotRecorded ==
  \/ \E n \in SnapshotRows, c \in BOOLEAN : handleDeleteSnapshot(n, c) /\ RecordRefresh
  \/ \E req \in BagToSet(inflight), r \in MutationResponses : handleDeleteSnapshot_deleted(req, r) /\ RecordRefresh
  \/ \E req \in BagToSet(inflight), r \in SnapshotResponses : handleDeleteSnapshot_refreshed(req, r) /\ RecordRefresh

NextSnapshots == MountRecorded \/ CreateSnapshotRecorded \/ DeleteSnapshotRecorded
SpecSnapshots == Init /\ [][NextSnapshots]_vars

\* ImagesView.
InitImages ==
  /\ view = "images" /\ InitEnv /\ InitVM /\ InitStorageView
  /\ srvVolumes = <<>>
  /\ InitImagesView /\ NoI18n
  /\ lastRefresh = NoRefresh

ImageResponseHandled ==
  \/ \E req \in BagToSet(inflight), r \in ImagesResponses : fetchImages_response(req, r) /\ NoHistory
  \/ \E req \in BagToSet(inflight), r \in ImageMutationResponses : handleFileUpload_done(req, r) /\ NoHistory
  \/ \E req \in BagToSet(inflight), r \in ImagesResponses : handleFileUpload_refreshed(req, r) /\ NoHistory
  \/ \E req \in BagToSet(inflight), r \in ImageMutationResponses : importImage_done(req, r) /\ NoHistory
  \/ \E req \in BagToSet(inflight), r \in ImagesResponses : importImage_refreshed(req, r) /\ NoHistory
  \/ \E req \in BagToSet(inflight), r \in ImageMutationResponses : downloadImage_done(req, r) /\ NoHistory
  \/ \E req \in BagToSet(inflight), r \in ImagesResponses : downloadImage_refreshed(req, r) /\ NoHistory
  \/ \E req \in BagToSet(inflight), r \in ImageMutationResponses : handleDeleteImage_done(req, r) /\ NoHistory
  \/ \E req \in BagToSet(inflight), r \in ImagesResponses : handleDeleteImage_refreshed(req, r) /\ NoHistory

ImageUserAction ==
  \/ fetchImages /\ NoHistory
  \/ \E o \in BOOLEAN : setIsAddDialogOpen(o) /\ NoHistory
  \/ \E path \in ImportPaths : setImportPath(path) /\ NoHistory
  \/ \E url \in DownloadUrls : setDownloadUrl(url) /\ NoHistory
  \/ handleFileUpload /\ NoHistory
  \/ importImage /\ NoHistory
  \/ downloadImage /\ NoHistory
  \/ \E k \in DOMAIN images, c \in BOOLEAN : handleDeleteImage(k, c) /\ NoHistory

NextImages == ImageUserAction \/ ImageResponseHandled
SpecImages == InitImages /\ [][NextImages]_vars

\* The requests ImagesView can have pending.
ImageRequests ==
  {Req("fetchImages", "getAll", <<>>)}
    \cup {Req("handleFileUpload", op, <<"file.iso">>) : op \in {"upload", "getAll"}}
    \cup {Req("importImage", op, <<path>>) :
            op \in {"importFromPath", "getAll"}, path \in ImportPaths}
    \cup {Req("downloadImage", op, <<url>>) : op \in {"download", "getAll"}, url \in DownloadUrls}
    \cup {Req("handleDeleteImage", op, <<"img1">>) : op \in {"deleteImage", "getAll"}}

\* The step runs the mount effect; the step handles the answer to request q.
Mounting    == event'.type = "mount"
Answered(q) == event'.type = "response" /\ event'.req = q

\* ImagesView where the mount effect runs and every pending imageAPI call is
\* eventually resolved or rejected.
FairSpecImages ==
  /\ SpecImages
  /\ WF_vars(NextImages /\ Mounting)
  /\ \A q \in ImageRequests : WF_vars(NextImages /\ Answered(q))

\* I18nProvider.
InitI18n ==
  /\ view = "i18n" /\ InitEnv /\ InitVM /\ InitStorageView
  /\ srvVolumes = <<>>
  /\ InitImagesView
  /\ \E saved \in SavedLocales, default \in Locales : MountI18n(saved, default)
  /\ lastRefresh = NoRefresh

NextI18n ==
  \/ storeEffect /\ NoHistory
  \/ loadEffect /\ NoHistory
  \/ \E l \in Locales : setLocale(l) /\ NoHistory
  \/ reload /\ NoHistory
SpecI18n == InitI18n /\ [][NextI18n]_vars

-----------------------------------------------------------------------------
(* Properties *)

\* The names the design gives the VM states, in the spellings the API uses.
RunningNames == {"Running", "running"}
ShutOffNames == {"ShutOff", "Shutoff", "shutoff"}
CrashedNames == {"Crashed", "crashed"}

\* The requests this step sent: those with more copies pending after it.
SentNow == {q \in BagToSet(inflight') : CopiesIn(q, inflight') > CopiesIn(q, inflight)}
\* How many pending requests carry one of the operations ops.
Pending(ops) ==
  LET S == {q \in BagToSet(inflight) : q.op \in ops}
  IN  BagCardinality([q \in S |-> inflight[q]])
\* The parts of a toast description include the string s.
Contains(description, s) == \E k \in DOMAIN description : description[k] = s

IsResponseTo(e, ops) == e.type = "response" /\ e.req.op \in ops

\* C1: at most one lifecycle action request of the displayed VM (start, stop,
\* reboot or delete) is pending at any time.
C1_OneLifecycleRequestInFlight == Pending({"postAction", "deleteVM"}) <= 1

\* C2: a stop or reboot request is sent only when the fetched state is Running,
\* a start request only when it is ShutOff or Crashed (so none for Paused).
C2_ActionsMatchState ==
  [][\A q \in SentNow : q.op = "postAction" =>
        /\ q.arg[1] \in {"stop", "reboot"} => vmData.state \in RunningNames
        /\ q.arg[1] = "start" => vmData.state \in ShutOffNames \cup CrashedNames]_vars

\* C3: a create-snapshot POST is sent only while the state held in vmData is
\* shut off.
C3_CreateSnapshotOnlyWhenShutOff ==
  [][\A q \in SentNow : q.op = "postSnapshot" => vmData.state \in ShutOffNames]_vars

\* C4: the step that handles a failed create-snapshot POST (non-2xx or network
\* error) leaves the snapshots list, the dialog's open flag and the entered name
\* and description as they were.
C4_FailedCreateKeepsForm ==
  [][IsResponseTo(event', {"postSnapshot"}) /\ event'.res.status # "ok" =>
        UNCHANGED <<snapshots, isCreateSnapshotOpen, snapshotName, snapshotDescription>>]_vars

C4_Witness ==
  /\ IsResponseTo(event, {"postSnapshot"}) /\ event.res.status = "http"
  /\ isCreateSnapshotOpen /\ snapshotName = "snap1" /\ snapshotDescription # ""
  /\ ~isCreatingSnapshot /\ toast.variant = "destructive"

\* C5: a revert request is sent only by a step in which the user confirmed the
\* prompt while the state held in vmData was shut off; a declined prompt sends
\* nothing and changes neither vmData, snapshots nor isPerformingAction.
C5_RevertNeedsConfirmAndShutOff ==
  [][/\ \A q \in SentNow : q.op = "postRevert" =>
          /\ event'.name = "revertSnapshot" /\ event'.confirm = "yes"
          /\ vmData.state \in ShutOffNames
     /\ event'.name = "revertSnapshot" /\ event'.confirm = "no" =>
          UNCHANGED <<inflight, vmData, snapshots, isPerformingAction>>]_vars

C5_Witness ==
  /\ event = UserEvent("revertSnapshot", "yes")
  /\ BagIn(Req("handleRevertSnapshot", "postRevert", <<"snap1">>), inflight)
  /\ vmData.state = "shutoff" /\ isPerformingAction

\* C6: the step that handles a failed request (a rejected call, a non-2xx
\* response or a network error) shows the failure: it raises a destructive toast
\* or leaves the view in its error state.
C6_NoFailureSwallowed ==
  [][event'.type = "response" /\ event'.res.status # "ok" =>
        toast'.variant = "destructive" \/ error' # NoError]_vars

\* C7: when a mutating request is answered non-2xx with a JSON body {error: s},
\* the message shown to the user contains s.
MutatingOps == {"postAction", "deleteVM", "postAttachDisk", "postAttachNetwork",
                "postSnapshot", "deleteSnapshot", "postRevert", "deleteVolume"}
C7_BackendErrorVerbatim ==
  [][/\ IsResponseTo(event', MutatingOps)
     /\ event'.res.status = "http" /\ event'.res.json /\ event'.res.error # ""
     => /\ toast'.variant = "destructive"
        /\ Contains(toast'.description, event'.res.error)]_vars

\* C8: vmData changes only in the step that handles a successful vmAPI.getById
\* response, and then to the VM that response carried; in particular the step
\* that handles a failed action request or a failed refresh leaves it unchanged.
C8_VmDataOnlyFromGetById ==
  [][/\ vmData' # vmData =>
          /\ IsResponseTo(event', {"getById"}) /\ event'.res.status = "ok"
          /\ vmData' = event'.res.vm
     /\ IsResponseTo(event', {"postAction", "getById"}) /\ event'.res.status # "ok" =>
          vmData' = vmData]_vars

C8_Witness ==
  /\ IsResponseTo(event, {"getById"}) /\ event.req.h = "performVMAction"
  /\ event.res.status = "throw"
  /\ vmData.state = "Running" /\ toast.variant = "destructive"

\* C9: an entry of the volumes list is either one the list already held or one
\* of the list carried by the successful storageAPI.getVolumes response the step
\* handles; no step adds an entry of its own making.
C9_VolumesOnlyFromGetVolumes ==
  [][\A k \in DOMAIN volumes' :
        \/ \E j \in DOMAIN volumes : volumes[j] = volumes'[k]
        \/ /\ IsResponseTo(event', {"getVolumes"}) /\ event'.res.status = "ok"
           /\ \E j \in DOMAIN event'.res.list.items :
                 event'.res.list.items[j] = volumes'[k]]_vars

\* C10: whenever StorageView is on screen with no request pending, the
\* allocation and the capacity it shows for the selected pool and for every
\* pool of the list are those the backend holds, also after a volume has been
\* created or deleted.
C10_PoolAccountingFresh ==
  StorageShown /\ inflight = EmptyBag =>
    /\ selectedPool.name # "" => selectedPool = SrvPool(selectedPool.name)
    /\ \A k \in DOMAIN storagePools : storagePools[k] = SrvPool(storagePools[k].name)

\* C11: of two delete requests for the same volume that are pending together,
\* the one the backend served is reported to the user as a success and the one
\* it refused as a failure.
C11_ConcurrentDeletesOneSuccess ==
  [][/\ ( /\ IsResponseTo(event', {"getVolumes"}) /\ event'.req.h = "deleteVolume"
          /\ \E q \in BagToSet(inflight') :
                q.h = "deleteVolume" /\ q.arg = event'.req.arg )
        => toast'.title = "Success"
     /\ IsResponseTo(event', {"deleteVolume"}) /\ event'.res.status # "ok"
        => toast'.variant = "destructive"]_vars

\* The models attachNetwork accepts.
AcceptedModels == {"virtio", "e1000", "rtl8139"}
\* The step handles the answer to the getById refresh of handleAttachNetwork,
\* which is only sent after the attach POST returned 2xx.
AttachNetworkRefreshHandled == IsResponseTo(event', {"getById"}) /\ event'.req.h = "handleAttachNetwork"

C13_FailedAttachKeepsDisksAndForm ==
  [][/\ ( /\ event'.type = "response"
          /\ event'.req.h \in {"handleAttachDisk", "handleAttachNetwork"}
          /\ (vmData'.disks # vmData.disks \/ vmData'.nics # vmData.nics) )
        => /\ event'.req.op = "getById" /\ event'.res.status = "ok"
           /\ vmData' = event'.res.vm
     /\ IsResponseTo(event', {"postAttachDisk"}) /\ event'.res.status # "ok"
        => /\ vmData'.disks = vmData.disks /\ Len(vmData'.disks) = Len(vmData.disks)
           /\ UNCHANGED <<isAddDiskOpen, diskVolumePath, diskTargetDev>>]_vars

C13_Witness ==
  /\ IsResponseTo(event, {"postAttachDisk"}) /\ event.res.status = "http"
  /\ isAddDiskOpen /\ diskVolumePath # "" /\ diskTargetDev = "vdb"
  /\ vmData.disks = <<>> /\ ~isAttachingDisk /\ toast.variant = "destructive"

\* The requests that change something at the backend, and how many of them are
\* pending in the bag b.
AllMutatingOps == MutatingOps \cup {"createVolume"}
MutatingIn(b) ==
  LET S == {q \in BagToSet(b) : q.op \in AllMutatingOps}
  IN  BagCardinality([q \in S |-> b[q]])

\* C14: one user action sends at most one mutating request, and no other step
\* sends any: the step that handles the answer to a mutating request, failed
\* or not, leaves one mutating request fewer pending, and the step that handles
\* any other answer leaves their number as it was.
C14_NoAutomaticRetry ==
  [][/\ event'.type = "user" =>
          /\ MutatingIn(inflight') \in {MutatingIn(inflight), MutatingIn(inflight) + 1}
          /\ Cardinality(SentNow) <= 1
     /\ event'.type = "response" =>
          MutatingIn(inflight') =
            MutatingIn(inflight) - (IF event'.req.op \in AllMutatingOps THEN 1 ELSE 0)
     /\ event'.type \notin {"user", "response"} =>
          MutatingIn(inflight') = MutatingIn(inflight)]_vars

C14_Witness ==
  /\ IsResponseTo(event, {"postAction"}) /\ event.res.status = "http"
  /\ MutatingIn(inflight) = 0 /\ ~isPerformingAction /\ toast.variant = "destructive"

\* C15: while StorageView is on screen, the badge on each pool's card and the
\* badge of the selected pool are the badge PoolStatusBadge gives for that
\* pool's state.
C15_BadgeFollowsPoolState ==
  StorageShown =>
    /\ \A k \in DOMAIN storagePools :
         PoolCardBadge(storagePools[k]) = PoolStatusBadge(storagePools[k].state)
    /\ selectedPool.name # "" => SelectedPoolBadge = PoolStatusBadge(selectedPool.state)

\* The step handles the failed getVolumes refresh of handleCreateVolume, which
\* is only sent after storageAPI.createVolume succeeded.
CreateRefreshFailed ==
  /\ IsResponseTo(event', {"getVolumes"}) /\ event'.req.h = "handleCreateVolume"
  /\ event'.res.status # "ok"

\* C16: the step that handles a failed refresh after a successful createVolume
\* appends exactly one entry to the list as it was (the name sent, the path
\* <pool>/<name>, the size sent times 2^30 bytes, here counted in units of 1024
\* bytes), leaves error alone, closes the dialog and resets the form to the
\* name "" and the size 10.
C16_FabricatedEntryOnRefreshFailure ==
  [][CreateRefreshFailed =>
       /\ volumes' = Append(volumes,
                            [name |-> event'.req.arg[2],
                             path |-> <<event'.req.arg[1], "/", event'.req.arg[2]>>,
                             capacity_b |-> event'.req.size * 1024 * 1024])
       /\ Len(volumes') = Len(volumes) + 1
       /\ error' = error /\ error' = NoError
       /\ ~isCreateVolumeDialogOpen' /\ newVolumeName' = "" /\ newVolumeSize' = 10
       /\ ~isCreatingVolume']_vars

C16_Witness ==
  /\ IsResponseTo(event, {"getVolumes"}) /\ event.req.h = "handleCreateVolume"
  /\ event.res.status = "throw"
  /\ Len(volumes) = 2 /\ volumes[2].name = "v2" /\ volumes[2].path = <<"default", "/", "v2">>
  /\ ~isCreateVolumeDialogOpen /\ newVolumeName = "" /\ newVolumeSize = 10

\* C17: once no request is pending, the snapshots list shown equals, in the same
\* order, the list answered to the snapshot GET that was issued after the most
\* recent successful snapshot create or delete, also when the handlers overlapped
\* and their refresh answers arrived out of order: when the last answer handled
\* is a refresh answer of handleCreateSnapshot or handleDeleteSnapshot and nothing
\* is pending any more, the list shown is the one the latest refresh GET returned.
C17_ShownListIsLatestRefresh ==
  (/\ inflight = EmptyBag
   /\ event.type = "response" /\ event.req.op = "getSnapshots"
   /\ event.req.h \in {"handleCreateSnapshot", "handleDeleteSnapshot"}
   /\ lastRefresh.answered
   /\ lastRefresh.res.status = "ok")
    => snapshots = lastRefresh.res.list

C19_BusyWhileActionOrRevertPending ==
  Pending({"postAction", "postRevert"}) > 0 => isPerformingAction

\* The pool named by a row's path: "/var/lib/flint/<pool>/<name>" from the
\* backend, "<pool>/<name>" in an entry the view made itself.
PoolOfRow(v) == IF Len(v.path) = 4 THEN v.path[2] ELSE v.path[1]

\* C20: whenever no getVolumes request is pending, the volumes list is empty or
\* holds volumes of the currently selected pool only, also after the user chose
\* pool A and then pool B before A's answer arrived, and after the pool was
\* switched while handleCreateVolume was running.
C20_VolumesBelongToSelectedPool ==
  Pending({"getVolumes"}) = 0
    => \A k \in DOMAIN volumes : PoolOfRow(volumes[k]) = selectedPool.name

\* C21: while the VM is shown, Stop and Reboot are rendered exactly when the
\* status badge is the Running badge, and Create Snapshot and the rows' revert
\* buttons are enabled exactly when the badge is the Stopped badge and Start is
\* rendered.
C21_ControlsAgreeWithBadge ==
  VMShown =>
    /\ ActionButtonShown("stop") <=> (getStatusBadge(vmData.state) = "Running")
    /\ ActionButtonShown("reboot") <=> (getStatusBadge(vmData.state) = "Running")
    /\ CreateSnapshotButtonEnabled
         <=> (getStatusBadge(vmData.state) = "Stopped" /\ ActionButtonShown("start"))
    /\ RevertButtonEnabled
         <=> (getStatusBadge(vmData.state) = "Stopped" /\ ActionButtonShown("start"))

\* C22: the step that handles the answer of the refresh (vmAPI.getById or
\* getVolumes) a VM action, a snapshot revert, a disk or network attach or a
\* volume delete issued after its mutating request returned 2xx shows the
\* success message, whether the refresh succeeded or failed.
C22_SuccessShownAfter2xxMutation ==
  [][(/\ IsResponseTo(event', {"getById", "getVolumes"})
      /\ event'.req.h \in {"performVMAction", "handleRevertSnapshot", "handleAttachDisk",
                           "handleAttachNetwork", "deleteVolume"})
        => (toast'.title = "Success" /\ toast'.variant # "destructive")]_vars

\* C23: in every reachable state snapshots is a list of snapshot records; no
\* snapshot GET that answers non-2xx with a JSON error object, on mount or in
\* the refresh after a create or delete, replaces the list with that body.
C23_SnapshotsIsAList == snapshots.kind = "array"

PendingOf(handlers) == \E q \in BagToSet(inflight) : q.h \in handlers
BusyOnlyWhilePending ==
  /\ isLoading => (~mounted \/ PendingOf({"fetchVMData", "fetchStorageData", "fetchImages"}))
  /\ isPerformingAction => PendingOf({"performVMAction", "handleRevertSnapshot"})
  /\ isCreatingSnapshot => PendingOf({"handleCreateSnapshot"})
  /\ isAttachingDisk => PendingOf({"handleAttachDisk"})
  /\ isAttachingNetwork => PendingOf({"handleAttachNetwork"})
  /\ isCreatingVolume => PendingOf({"handleCreateVolume"})
  /\ isUploading => PendingOf({"handleFileUpload"})
  /\ isImporting => PendingOf({"importImage"})
  /\ isDownloading => PendingOf({"downloadImage"})

C25_ErrorIsSticky ==
  [][(/\ view \in {"storage", "images"} /\ mounted /\ ~isLoading
      /\ error # NoError)
        => (error' # NoError /\ event'.type # "user" /\ event'.type # "mount")]_vars

\* A refused createVolume has been handled after the initial load.
C25_Witness ==
  /\ view = "storage" /\ mounted /\ ~isLoading
  /\ IsResponseTo(event, {"createVolume"}) /\ event.res.status = "throw"
  /\ error = event.res.error /\ error # NoError

\* C26: when localStorage held 'locale' = L with L a locale at the moment
\* I18nProvider mounted, then once the effects of the mount have all run (the
\* load effect ran last and nothing is due) the provider's locale is L and
\* localStorage still holds L.
C26_SavedLocaleSurvivesReload ==
  (/\ localeAtMount \in Locales
   /\ event.type = "effect" /\ event.name = "load" /\ effects = <<>>)
    => (locale = localeAtMount /\ localStorage = localeAtMount)

\* C27: every createVolume request StorageView sends carries a non-empty Name
\* and a SizeGB of at least 1, whatever was typed into the two inputs.
C27_CreateVolumeRequestValid ==
  [][\A q \in SentNow : q.op = "createVolume" => (q.arg[2] # "" /\ q.size >= 1)]_vars

====
